---- MODULE Spec2Model ----
(***************************************************************************)
(* Unified Context Protocol: the entry validation engine of packages/core  *)
(* (types/index.ts, validation/index.ts).                                  *)
(*                                                                         *)
(* JavaScript values are modelled as tagged records:                       *)
(*   [k |-> "undefined"], [k |-> "null"], [k |-> "num", v |-> n],          *)
(*   [k |-> "nan"], [k |-> "inf"], [k |-> "bigint"],                       *)
(*   [k |-> "str", s, run, fill]   the text s followed by run copies of    *)
(*                                 the one character fill,                 *)
(*   [k |-> "arr", len, dflt, exc] an array of len elements, element i     *)
(*                                 being exc[i] when i is in DOMAIN exc    *)
(*                                 and dflt otherwise,                     *)
(*   [k |-> "obj", m, cyc]         an object with own keys DOMAIN m; cyc   *)
(*                                 says that it refers back to itself.     *)
(* The schemas of types/index.ts are data, interpreted by Parse the way    *)
(* the schema library (zod 3) parses: every issue of every field is        *)
(* collected, undeclared keys of an object schema are stripped.            *)
(***************************************************************************)
EXTENDS Integers, Sequences, FiniteSets, TLC

(***************************************************************************)
(* JavaScript values                                                       *)
(***************************************************************************)
UNDEF == [k |-> "undefined"]
NULL == [k |-> "null"]
NAN == [k |-> "nan"]
INF == [k |-> "inf"]
BIGINT == [k |-> "bigint"]
Num(v) == [k |-> "num", v |-> v]
Str(s) == [k |-> "str", s |-> s, run |-> 0, fill |-> "a"]
Run(s, n, c) == [k |-> "str", s |-> s, run |-> n, fill |-> c]
Arr(len, dflt, exc) == [k |-> "arr", len |-> len, dflt |-> dflt, exc |-> exc]
Obj(m) == [k |-> "obj", m |-> m, cyc |-> FALSE]
Cyclic(m) == [k |-> "obj", m |-> m, cyc |-> TRUE]

\* The empty map, a short array written out, and an array of n equal elements.
NoKeys == [x \in {} |-> UNDEF]
List(seq) == Arr(Len(seq), UNDEF, [i \in 0..(Len(seq) - 1) |-> seq[i + 1]])
Fill(n, v) == Arr(n, v, [i \in {} |-> UNDEF])

\* obj[key], undefined when the key is absent.
Get(m, key) == IF key \in DOMAIN m THEN m[key] ELSE UNDEF
\* arr[i]
At(a, i) == IF i \in DOMAIN a.exc THEN a.exc[i] ELSE a.dflt

\* {...m, [key]: v} and the object without a key.
With(m, key, v) == [x \in DOMAIN m \cup {key} |-> IF x = key THEN v ELSE m[x]]
Without(m, key) == [x \in DOMAIN m \ {key} |-> m[x]]

RECURSIVE Flatten(_)
Flatten(ss) == IF ss = <<>> THEN <<>> ELSE Head(ss) \o Flatten(Tail(ss))

\* The members of a set of integers in ascending order.
RECURSIVE Ascending(_)
Ascending(S) ==
    IF S = {} THEN <<>>
    ELSE LET lo == CHOOSE x \in S : \A y \in S : x <= y
         IN <<lo>> \o Ascending(S \ {lo})

\* The members of a finite set in some fixed order.
RECURSIVE SomeOrder(_)
SomeOrder(S) ==
    IF S = {} THEN <<>>
    ELSE LET x == CHOOSE y \in S : TRUE
         IN <<x>> \o SomeOrder(S \ {x})

(***************************************************************************)
(* Strings                                                                 *)
(***************************************************************************)
Digits == {"0", "1", "2", "3", "4", "5", "6", "7", "8", "9"}
Lower ==
    {"a", "b", "c", "d", "e", "f", "g", "h", "i", "j", "k", "l", "m",
     "n", "o", "p", "q", "r", "s", "t", "u", "v", "w", "x", "y", "z"}
Upper ==
    {"A", "B", "C", "D", "E", "F", "G", "H", "I", "J", "K", "L", "M",
     "N", "O", "P", "Q", "R", "S", "T", "U", "V", "W", "X", "Y", "Z"}
HexDigits == Digits \cup {"a", "b", "c", "d", "e", "f", "A", "B", "C", "D", "E", "F"}

\* s[i], 1-based, of a text.
CharAt(s, i) == SubSeq(s, i, i)

\* string.length
StrLen(v) == Len(v.s) + v.run

\* The number of bytes of the UTF-8 encoding of one character: the texts and
\* fill characters of the model are ASCII but for "U+00E9" (e acute) and
\* "U+20AC" (the euro sign).
Utf8Len(c) == IF c = "U+00E9" THEN 2 ELSE IF c = "U+20AC" THEN 3 ELSE 1

\* new TextEncoder().encode(string).length
StrBytes(v) == Len(v.s) + v.run * Utf8Len(v.fill)

\* Every character of the string is in the class.
AllIn(v, class) ==
    /\ \A i \in 1..Len(v.s) : CharAt(v.s, i) \in class
    /\ v.run > 0 => v.fill \in class

\* string.startsWith(c), string.endsWith(c), string.includes(cc) for one
\* character c.
StartsWith(v, c) ==
    IF Len(v.s) > 0 THEN CharAt(v.s, 1) = c ELSE v.run > 0 /\ v.fill = c
EndsWith(v, c) ==
    IF v.run > 0 THEN v.fill = c ELSE Len(v.s) > 0 /\ CharAt(v.s, Len(v.s)) = c
IncludesTwice(v, c) ==
    \/ \E i \in 1..(Len(v.s) - 1) : CharAt(v.s, i) = c /\ CharAt(v.s, i + 1) = c
    \/ Len(v.s) > 0 /\ CharAt(v.s, Len(v.s)) = c /\ v.run >= 1 /\ v.fill = c
    \/ v.run >= 2 /\ v.fill = c

(***************************************************************************)
(* The schema library: schemas as data                                     *)
(***************************************************************************)
ZUnknown == [z |-> "unknown"]
ZString(checks) == [z |-> "string", checks |-> checks]
ZNumber(checks) == [z |-> "number", checks |-> checks]
ZEnum(values) == [z |-> "enum", values |-> values]
ZLiteral(value) == [z |-> "literal", value |-> value]
ZOptional(inner) == [z |-> "optional", inner |-> inner]
ZNullable(inner) == [z |-> "nullable", inner |-> inner]
ZArray(elem) == [z |-> "array", elem |-> elem]
ZTuple(items) == [z |-> "tuple", items |-> items]
ZRecord(val) == [z |-> "record", val |-> val]
ZObject(keys, shape) == [z |-> "object", keys |-> keys, shape |-> shape]

\* schema.extend(augmentation): the augmenting keys replace the keys of the
\* same name in place, new keys follow.
Extend(sch, keys, shape) ==
    ZObject(sch.keys \o SelectSeq(keys, LAMBDA x : x \notin DOMAIN sch.shape),
            [x \in DOMAIN sch.shape \cup DOMAIN shape |->
                IF x \in DOMAIN shape THEN shape[x] ELSE sch.shape[x]])

\* The library's name of the type of a value.
ParsedType(v) ==
    CASE v.k = "undefined" -> "undefined"
      [] v.k = "null" -> "null"
      [] v.k = "nan" -> "nan"
      [] v.k \in {"num", "inf"} -> "number"
      [] v.k = "bigint" -> "bigint"
      [] v.k = "str" -> "string"
      [] v.k = "arr" -> "array"
      [] v.k = "obj" -> "object"

\* How an issue shows the value it received, when it carries the value itself.
Shown(v) == IF v.k = "str" /\ v.run = 0 THEN v.s ELSE ParsedType(v)

RECURSIVE JoinValues(_)
JoinValues(vs) ==
    IF Len(vs) = 0 THEN ""
    ELSE IF Len(vs) = 1 THEN "'" \o vs[1] \o "'"
    ELSE "'" \o vs[1] \o "' | " \o JoinValues(Tail(vs))

Parsed(out) == [issues |-> <<>>, out |-> out]
Failed(issue, v) == [issues |-> <<issue>>, out |-> v]

InvalidType(expected, v, path) ==
    [code |-> "invalid_type",
     message |-> IF v.k = "undefined" THEN "Required"
                 ELSE "Expected " \o expected \o ", received " \o ParsedType(v),
     path |-> path, received |-> ParsedType(v), expected |-> expected]

\* /^[0-9a-f]{8}-[0-9a-f]{4}-[0-9a-f]{4}-[0-9a-f]{4}-[0-9a-f]{12}$/i
IsUUID(v) ==
    /\ v.run = 0
    /\ Len(v.s) = 36
    /\ \A i \in 1..36 :
          IF i \in {9, 14, 19, 24} THEN CharAt(v.s, i) = "-"
          ELSE CharAt(v.s, i) \in HexDigits

\* /^\d{4}-\d{2}-\d{2}T\d{2}:\d{2}:\d{2}(\.\d+)?Z$/
IsDatetime(v) ==
    /\ v.run = 0
    /\ Len(v.s) >= 20
    /\ \A i \in 1..19 :
          CASE i \in {5, 8} -> CharAt(v.s, i) = "-"
            [] i = 11 -> CharAt(v.s, i) = "T"
            [] i \in {14, 17} -> CharAt(v.s, i) = ":"
            [] OTHER -> CharAt(v.s, i) \in Digits
    /\ CharAt(v.s, Len(v.s)) = "Z"
    /\ Len(v.s) > 20 =>
          /\ Len(v.s) >= 22
          /\ CharAt(v.s, 20) = "."
          /\ \A i \in 21..(Len(v.s) - 1) : CharAt(v.s, i) \in Digits

\* One check of a string schema: the issue it raises, or none.
StringCheck(c, v, path) ==
    CASE c.c = "min" ->
            IF StrLen(v) < c.v
            THEN <<[code |-> "too_small",
                    message |-> "String must contain at least " \o ToString(c.v)
                                    \o " character(s)",
                    path |-> path]>>
            ELSE <<>>
      [] c.c = "uuid" ->
            IF IsUUID(v) THEN <<>>
            ELSE <<[code |-> "invalid_string", message |-> "Invalid uuid",
                    path |-> path]>>
      [] c.c = "datetime" ->
            IF IsDatetime(v) THEN <<>>
            ELSE <<[code |-> "invalid_string", message |-> "Invalid datetime",
                    path |-> path]>>

ParseString(sch, v, path) ==
    IF v.k # "str" THEN Failed(InvalidType("string", v, path), v)
    ELSE [issues |-> Flatten([i \in 1..Len(sch.checks) |->
                                 StringCheck(sch.checks[i], v, path)]),
          out |-> v]

\* The checks of a number schema with exclusive bounds.
NumberCheck_Exclusive(c, v, path) ==
    CASE c.c = "min" ->
            IF v.k = "num" /\ v.v <= c.v
            THEN <<[code |-> "too_small",
                    message |-> "Number must be greater than " \o ToString(c.v),
                    path |-> path]>>
            ELSE <<>>
      [] c.c = "max" ->
            IF v.k = "inf" \/ v.v >= c.v
            THEN <<[code |-> "too_big",
                    message |-> "Number must be less than " \o ToString(c.v),
                    path |-> path]>>
            ELSE <<>>

\* One check of a number schema; the value is a number or positive infinity.
NumberCheck(c, v, path) ==
    CASE c.c = "min" ->
            IF v.k = "num" /\ v.v < c.v
            THEN <<[code |-> "too_small",
                    message |-> "Number must be greater than or equal to "
                                    \o ToString(c.v),
                    path |-> path]>>
            ELSE <<>>
      [] c.c = "max" ->
            IF v.k = "inf" \/ v.v > c.v
            THEN <<[code |-> "too_big",
                    message |-> "Number must be less than or equal to "
                                    \o ToString(c.v),
                    path |-> path]>>
            ELSE <<>>

\* z.number() takes every value of type number but NaN; infinity is a number.
ParseNumber(sch, v, path) ==
    IF v.k \notin {"num", "inf"} THEN Failed(InvalidType("number", v, path), v)
    ELSE [issues |-> Flatten([i \in 1..Len(sch.checks) |->
                                 NumberCheck(sch.checks[i], v, path)]),
          out |-> v]

\* z.nativeEnum(E) and z.enum([...]) over string values.
ParseEnum(sch, v, path) ==
    IF v.k # "str" THEN Failed(InvalidType(JoinValues(sch.values), v, path), v)
    ELSE IF v.run = 0 /\ \E i \in 1..Len(sch.values) : sch.values[i] = v.s
    THEN Parsed(v)
    ELSE Failed([code |-> "invalid_enum_value",
                 message |-> "Invalid enum value. Expected " \o JoinValues(sch.values)
                                 \o ", received '" \o Shown(v) \o "'",
                 path |-> path, received |-> Shown(v)], v)

ParseLiteral(sch, v, path) ==
    IF v.k = "str" /\ v.run = 0 /\ v.s = sch.value THEN Parsed(v)
    ELSE Failed([code |-> "invalid_literal",
                 message |-> "Invalid literal value, expected \"" \o sch.value \o "\"",
                 path |-> path, received |-> Shown(v), expected |-> sch.value], v)

\* The indices of an array at which the element schema has to be looked at:
\* all of them, or only the written-out ones when the common element passes.
RECURSIVE Parse(_, _, _)
Visited(sch, v, path) ==
    IF Parse(sch, v.dflt, path).issues = <<>>
    THEN Ascending(DOMAIN v.exc \cap 0..(v.len - 1))
    ELSE Ascending(0..(v.len - 1))

Parse(sch, v, path) ==
    CASE sch.z = "unknown" -> Parsed(v)
      [] sch.z = "string" -> ParseString(sch, v, path)
      [] sch.z = "number" -> ParseNumber(sch, v, path)
      [] sch.z = "enum" -> ParseEnum(sch, v, path)
      [] sch.z = "literal" -> ParseLiteral(sch, v, path)
      [] sch.z = "optional" ->
            IF v.k = "undefined" THEN Parsed(v) ELSE Parse(sch.inner, v, path)
      [] sch.z = "nullable" ->
            IF v.k = "null" THEN Parsed(v) ELSE Parse(sch.inner, v, path)
      [] sch.z = "array" ->
            IF v.k # "arr" THEN Failed(InvalidType("array", v, path), v)
            ELSE LET idx == Visited(sch.elem, v, path)
                 IN [issues |-> Flatten([n \in 1..Len(idx) |->
                                   Parse(sch.elem, At(v, idx[n]),
                                         Append(path, ToString(idx[n]))).issues]),
                     out |-> Arr(v.len, Parse(sch.elem, v.dflt, path).out,
                                 [i \in DOMAIN v.exc |->
                                     Parse(sch.elem, v.exc[i], path).out])]
      [] sch.z = "tuple" ->
            IF v.k # "arr" THEN Failed(InvalidType("array", v, path), v)
            ELSE IF v.len < Len(sch.items)
            THEN Failed([code |-> "too_small",
                         message |-> "Array must contain at least "
                                         \o ToString(Len(sch.items)) \o " element(s)",
                         path |-> path], v)
            ELSE IF v.len > Len(sch.items)
            THEN Failed([code |-> "too_big",
                         message |-> "Array must contain at most "
                                         \o ToString(Len(sch.items)) \o " element(s)",
                         path |-> path], v)
            ELSE [issues |-> Flatten([n \in 1..Len(sch.items) |->
                                   Parse(sch.items[n], At(v, n - 1),
                                         Append(path, ToString(n - 1))).issues]),
                  out |-> Arr(v.len, v.dflt,
                              [i \in DOMAIN v.exc |->
                                  IF i < Len(sch.items)
                                  THEN Parse(sch.items[i + 1], v.exc[i], path).out
                                  ELSE v.exc[i]])]
      [] sch.z = "record" ->
            IF v.k # "obj" THEN Failed(InvalidType("object", v, path), v)
            ELSE LET keys == SomeOrder(DOMAIN v.m)
                 IN [issues |-> Flatten([n \in 1..Len(keys) |->
                                   Parse(sch.val, v.m[keys[n]],
                                         Append(path, keys[n])).issues]),
                     out |-> [v EXCEPT !.m = [x \in DOMAIN v.m |->
                                   Parse(sch.val, v.m[x], path).out]]]
      [] sch.z = "object" ->
            IF v.k # "obj" THEN Failed(InvalidType("object", v, path), v)
            ELSE LET field(n) == Parse(sch.shape[sch.keys[n]], Get(v.m, sch.keys[n]),
                                       Append(path, sch.keys[n]))
                     kept == {x \in DOMAIN sch.shape :
                                \/ x \in DOMAIN v.m
                                \/ Parse(sch.shape[x], UNDEF, path).out # UNDEF}
                 IN [issues |-> Flatten([n \in 1..Len(sch.keys) |-> field(n).issues]),
                     out |-> [v EXCEPT !.m = [x \in kept |->
                                   Parse(sch.shape[x], Get(v.m, x), path).out]]]

(***************************************************************************)
(* types/index.ts                                                          *)
(***************************************************************************)
MemoryEntryType ==
    <<"TaskState", "CommitDelta", "ReasoningEntry", "SummaryCheckpoint", "BranchMeta">>
MemoryEntryStatus == <<"draft", "verified", "archived">>

ZStr == ZString(<<>>)
ZDatetime == ZString(<<[c |-> "datetime"]>>)
ZNum == ZNumber(<<>>)
ZStrings == ZArray(ZStr)

\* MemoryEntrySchema with type declared as any string.
MemoryEntrySchema_AnyType ==
    ZObject(<<"id", "type", "project", "taskId", "branch", "timestamp", "status",
              "content", "metadata", "embedding", "tags">>,
            [id |-> ZString(<<[c |-> "uuid"]>>),
             type |-> ZStr,
             project |-> ZString(<<[c |-> "min", v |-> 1]>>),
             taskId |-> ZNullable(ZStr),
             branch |-> ZString(<<[c |-> "min", v |-> 1]>>),
             timestamp |-> ZDatetime,
             status |-> ZEnum(MemoryEntryStatus),
             content |-> ZRecord(ZUnknown),
             metadata |-> ZOptional(ZRecord(ZUnknown)),
             embedding |-> ZOptional(ZArray(ZNum)),
             tags |-> ZOptional(ZStrings)])

\* MemoryEntrySchema with project and branch declared as any string.
MemoryEntrySchema_NoMin ==
    ZObject(<<"id", "type", "project", "taskId", "branch", "timestamp", "status",
              "content", "metadata", "embedding", "tags">>,
            [id |-> ZString(<<[c |-> "uuid"]>>),
             type |-> ZEnum(MemoryEntryType),
             project |-> ZStr,
             taskId |-> ZNullable(ZStr),
             branch |-> ZStr,
             timestamp |-> ZDatetime,
             status |-> ZEnum(MemoryEntryStatus),
             content |-> ZRecord(ZUnknown),
             metadata |-> ZOptional(ZRecord(ZUnknown)),
             embedding |-> ZOptional(ZArray(ZNum)),
             tags |-> ZOptional(ZStrings)])

MemoryEntrySchema ==
    ZObject(<<"id", "type", "project", "taskId", "branch", "timestamp", "status",
              "content", "metadata", "embedding", "tags">>,
            [id |-> ZString(<<[c |-> "uuid"]>>),
             type |-> ZEnum(MemoryEntryType),
             project |-> ZString(<<[c |-> "min", v |-> 1]>>),
             taskId |-> ZNullable(ZStr),
             branch |-> ZString(<<[c |-> "min", v |-> 1]>>),
             timestamp |-> ZDatetime,
             status |-> ZEnum(MemoryEntryStatus),
             content |-> ZRecord(ZUnknown),
             metadata |-> ZOptional(ZRecord(ZUnknown)),
             embedding |-> ZOptional(ZArray(ZNum)),
             tags |-> ZOptional(ZStrings)])

TaskStateContentSchema ==
    ZObject(<<"description", "goals", "progress", "context", "activeFiles",
              "workingDirectory", "dependencies", "blockers">>,
            [description |-> ZStr,
             goals |-> ZStrings,
             progress |-> ZNumber(<<[c |-> "min", v |-> 0], [c |-> "max", v |-> 100]>>),
             context |-> ZRecord(ZUnknown),
             activeFiles |-> ZStrings,
             workingDirectory |-> ZStr,
             dependencies |-> ZOptional(ZStrings),
             blockers |-> ZOptional(ZStrings)])

TaskStateSchema ==
    Extend(MemoryEntrySchema, <<"type", "content">>,
           [type |-> ZLiteral("TaskState"), content |-> TaskStateContentSchema])

CommitDeltaContentSchema ==
    ZObject(<<"commitHash", "message", "author", "files", "semantic">>,
            [commitHash |-> ZStr,
             message |-> ZStr,
             author |-> ZObject(<<"name", "email">>, [name |-> ZStr, email |-> ZStr]),
             files |-> ZArray(ZObject(<<"path", "action", "linesAdded", "linesDeleted">>,
                          [path |-> ZStr,
                           action |-> ZEnum(<<"added", "modified", "deleted", "renamed">>),
                           linesAdded |-> ZOptional(ZNum),
                           linesDeleted |-> ZOptional(ZNum)])),
             semantic |-> ZOptional(ZObject(<<"functions", "classes", "imports", "configs">>,
                          [functions |-> ZOptional(ZStrings),
                           classes |-> ZOptional(ZStrings),
                           imports |-> ZOptional(ZStrings),
                           configs |-> ZOptional(ZStrings)]))])

CommitDeltaSchema ==
    Extend(MemoryEntrySchema, <<"type", "content">>,
           [type |-> ZLiteral("CommitDelta"), content |-> CommitDeltaContentSchema])

ReasoningEntryContentSchema ==
    ZObject(<<"threadId", "model", "query", "response", "reasoning", "codeRefs",
              "actions">>,
            [threadId |-> ZStr,
             model |-> ZStr,
             query |-> ZStr,
             response |-> ZStr,
             reasoning |-> ZOptional(ZStr),
             codeRefs |-> ZOptional(ZArray(ZObject(<<"file", "lines", "content">>,
                          [file |-> ZStr,
                           lines |-> ZOptional(ZTuple(<<ZNum, ZNum>>)),
                           content |-> ZOptional(ZStr)]))),
             actions |-> ZOptional(ZStrings)])

ReasoningEntrySchema ==
    Extend(MemoryEntrySchema, <<"type", "content">>,
           [type |-> ZLiteral("ReasoningEntry"), content |-> ReasoningEntryContentSchema])

SummaryCheckpointContentSchema ==
    ZObject(<<"period", "summary", "achievements", "decisions", "technicalDebt",
              "metrics", "compressedEntries">>,
            [period |-> ZObject(<<"start", "end">>,
                                [start |-> ZDatetime, end |-> ZDatetime]),
             summary |-> ZStr,
             achievements |-> ZStrings,
             decisions |-> ZStrings,
             technicalDebt |-> ZOptional(ZStrings),
             metrics |-> ZOptional(ZRecord(ZNum)),
             compressedEntries |-> ZOptional(ZStrings)])

SummaryCheckpointSchema ==
    Extend(MemoryEntrySchema, <<"type", "content">>,
           [type |-> ZLiteral("SummaryCheckpoint"),
            content |-> SummaryCheckpointContentSchema])

BranchMetaContentSchema ==
    ZObject(<<"purpose", "parentBranch", "childBranches", "createdAt", "mergeTarget",
              "featureFlags", "environment", "relatedBranches">>,
            [purpose |-> ZStr,
             parentBranch |-> ZStr,
             childBranches |-> ZOptional(ZStrings),
             createdAt |-> ZDatetime,
             mergeTarget |-> ZOptional(ZDatetime),
             featureFlags |-> ZOptional(ZStrings),
             environment |-> ZOptional(ZEnum(<<"development", "staging", "production">>)),
             relatedBranches |-> ZOptional(ZStrings)])

BranchMetaSchema ==
    Extend(MemoryEntrySchema, <<"type", "content">>,
           [type |-> ZLiteral("BranchMeta"), content |-> BranchMetaContentSchema])

(***************************************************************************)
(* validation/index.ts                                                     *)
(***************************************************************************)
\* What a call does: it returns a ValidationResult or it throws.
Returned(r) == [kind |-> "returned", result |-> r]
Thrown(e) == [kind |-> "thrown", error |-> e]

\* The two object literals the validators return: {success: true, data} and
\* {success: false, errors}.
Success(data) == [success |-> TRUE, data |-> data]
Failure(errors) == [success |-> FALSE, errors |-> errors]

\* if (x): every value is truthy but undefined, null, NaN, 0 and "".
Truthy(v) ==
    CASE v.k \in {"undefined", "null", "nan"} -> FALSE
      [] v.k = "num" -> v.v # 0
      [] v.k = "str" -> StrLen(v) > 0
      [] OTHER -> TRUE

\* String(x) and `${x}` of a value that is no array.
ToText(v) ==
    CASE v.k = "str" -> v
      [] v.k = "undefined" -> Str("undefined")
      [] v.k = "null" -> Str("null")
      [] v.k = "nan" -> Str("NaN")
      [] v.k = "inf" -> Str("Infinity")
      [] v.k = "num" -> Str(ToString(v.v))
      [] v.k = "bigint" -> Str("10")
      [] v.k = "obj" -> Str("[object Object]")

\* MemoryEntryValidator.parseZodError on the error the schema library throws.
ParseZodError(issues) ==
    [n \in 1..Len(issues) |->
        [code |-> issues[n].code,
         message |-> issues[n].message,
         path |-> issues[n].path,
         context |-> [x \in {"received", "expected"} \cap DOMAIN issues[n] |->
                         issues[n][x]]]]

\* schema.parse(value) inside try/catch: the parsed value, or the issues of
\* the ZodError given to parseZodError.
ParseOrErrors(sch, value) ==
    LET p == Parse(sch, value, <<>>)
    IN IF p.issues = <<>> THEN Returned(Success(p.out))
       ELSE Returned(Failure(ParseZodError(p.issues)))

\* MemoryEntryValidator.validate keeping only the first error.
Validate_FirstOnly(entry) ==
    LET r == ParseOrErrors(MemoryEntrySchema, entry)
    IN IF r.result.success THEN r
       ELSE Returned(Failure(<<r.result.errors[1]>>))

\* MemoryEntryValidator.validate
Validate(entry) == ParseOrErrors(MemoryEntrySchema, entry)

\* The switch of validateByType with the base schema in the BranchMeta case.
SchemaOfType_BaseForBranchMeta(type) ==
    IF type.k # "str" \/ type.run # 0 THEN [z |-> "none"]
    ELSE CASE type.s = "TaskState" -> TaskStateSchema
           [] type.s = "CommitDelta" -> CommitDeltaSchema
           [] type.s = "ReasoningEntry" -> ReasoningEntrySchema
           [] type.s = "SummaryCheckpoint" -> SummaryCheckpointSchema
           [] type.s = "BranchMeta" -> MemoryEntrySchema
           [] OTHER -> [z |-> "none"]

\* The switch of validateByType without the case of BranchMeta.
SchemaOfType_NoBranchMeta(type) ==
    IF type.k # "str" \/ type.run # 0 THEN [z |-> "none"]
    ELSE CASE type.s = "TaskState" -> TaskStateSchema
           [] type.s = "CommitDelta" -> CommitDeltaSchema
           [] type.s = "ReasoningEntry" -> ReasoningEntrySchema
           [] type.s = "SummaryCheckpoint" -> SummaryCheckpointSchema
           [] OTHER -> [z |-> "none"]

\* The schema the switch of validateByType selects for entry.type, "none" in
\* the default branch.
SchemaOfType(type) ==
    IF type.k # "str" \/ type.run # 0 THEN [z |-> "none"]
    ELSE CASE type.s = "TaskState" -> TaskStateSchema
           [] type.s = "CommitDelta" -> CommitDeltaSchema
           [] type.s = "ReasoningEntry" -> ReasoningEntrySchema
           [] type.s = "SummaryCheckpoint" -> SummaryCheckpointSchema
           [] type.s = "BranchMeta" -> BranchMetaSchema
           [] OTHER -> [z |-> "none"]

\* validateByType returning the entry it was given instead of the parsed one.
ValidateByType_Passthrough(entry) ==
    IF entry.k \in {"undefined", "null"} THEN Thrown("TypeError")
    ELSE LET type == IF entry.k = "obj" THEN Get(entry.m, "type") ELSE UNDEF
             sch == SchemaOfType(type)
             p == ParseOrErrors(sch, entry)
         IN IF sch.z = "none"
            THEN Returned(Failure(<<[code |-> "INVALID_TYPE",
                                     message |-> "Unknown memory entry type: "
                                                     \o ToText(type).s,
                                     path |-> <<"type">>]>>))
            ELSE IF p.result.success THEN Returned(Success(entry))
            ELSE p

\* validateByType keeping only the first error of the schema.
ValidateByType_FirstOnly(entry) ==
    IF entry.k \in {"undefined", "null"} THEN Thrown("TypeError")
    ELSE LET type == IF entry.k = "obj" THEN Get(entry.m, "type") ELSE UNDEF
             sch == SchemaOfType(type)
             p == ParseOrErrors(sch, entry)
         IN IF sch.z = "none"
            THEN Returned(Failure(<<[code |-> "INVALID_TYPE",
                                     message |-> "Unknown memory entry type: "
                                                     \o ToText(type).s,
                                     path |-> <<"type">>]>>))
            ELSE IF p.result.success THEN p
            ELSE Returned(Failure(<<p.result.errors[1]>>))

\* validateByType returning the parsed entry without a taskId that is null.
ValidateByType_DropsNull(entry) ==
    IF entry.k \in {"undefined", "null"} THEN Thrown("TypeError")
    ELSE LET type == IF entry.k = "obj" THEN Get(entry.m, "type") ELSE UNDEF
             sch == SchemaOfType(type)
             p == ParseOrErrors(sch, entry)
         IN IF sch.z = "none"
            THEN Returned(Failure(<<[code |-> "INVALID_TYPE",
                                     message |-> "Unknown memory entry type: "
                                                     \o ToText(type).s,
                                     path |-> <<"type">>]>>))
            ELSE IF p.result.success /\ Get(p.result.data.m, "taskId") = NULL
            THEN Returned(Success([p.result.data EXCEPT
                                      !.m = Without(p.result.data.m, "taskId")]))
            ELSE p

\* MemoryEntryValidator.validateByType.  Reading entry.type of null or
\* undefined throws a TypeError inside the try block; the catch block hands it
\* to parseZodError, where error.errors is undefined and error.errors.map
\* throws again, out of the validator.
ValidateByType(entry) ==
    IF entry.k \in {"undefined", "null"} THEN Thrown("TypeError")
    ELSE LET type == IF entry.k = "obj" THEN Get(entry.m, "type") ELSE UNDEF
             sch == SchemaOfType(type)
         IN IF sch.z = "none"
            THEN Returned(Failure(<<[code |-> "INVALID_TYPE",
                                     message |-> "Unknown memory entry type: "
                                                     \o ToText(type).s,
                                     path |-> <<"type">>]>>))
            ELSE ParseOrErrors(sch, entry)

\* MemoryEntryValidator.validateTyped
ValidateTyped(entry) ==
    LET baseResult == Validate(entry)
    IN IF ~baseResult.result.success \/ ~Truthy(baseResult.result.data)
       THEN baseResult
       ELSE ValidateByType(baseResult.result.data)

PROJECT_NAME_CLASS == Lower \cup Upper \cup Digits \cup {"_", "-"}
PROJECT_MAX_LENGTH == 100
PROJECT_MIN_LENGTH == 1

\* /^[a-zA-Z0-9_-]*$/.test(name)
ProjectNameRegexTest_Star(v) == AllIn(v, PROJECT_NAME_CLASS)

\* /^[a-zA-Z0-9_-]+$/.test(name)
ProjectNameRegexTest(v) == StrLen(v) >= 1 /\ AllIn(v, PROJECT_NAME_CLASS)

\* The project checks stopping at the first one that fails.
ProjectErrors_FirstOnly(projectName) ==
    IF projectName.k = "str" /\ StrLen(projectName) < PROJECT_MIN_LENGTH
    THEN <<[code |-> "TOO_SHORT",
            message |-> "Project name must be at least "
                            \o ToString(PROJECT_MIN_LENGTH) \o " character(s)"]>>
    ELSE IF projectName.k = "str" /\ StrLen(projectName) > PROJECT_MAX_LENGTH
    THEN <<[code |-> "TOO_LONG",
            message |-> "Project name must be at most "
                            \o ToString(PROJECT_MAX_LENGTH) \o " characters"]>>
    ELSE IF ~ProjectNameRegexTest(ToText(projectName))
    THEN <<[code |-> "INVALID_FORMAT",
            message |-> "Project name can only contain letters, numbers, underscores, and hyphens"]>>
    ELSE <<>>

\* ProjectValidator.validate; a non-string has no length (the two length
\* tests compare undefined and are false) and is tested as String(value).
ProjectErrors(projectName) ==
    (IF projectName.k = "str" /\ StrLen(projectName) < PROJECT_MIN_LENGTH
     THEN <<[code |-> "TOO_SHORT",
             message |-> "Project name must be at least "
                             \o ToString(PROJECT_MIN_LENGTH) \o " character(s)"]>>
     ELSE <<>>)
    \o
    (IF projectName.k = "str" /\ StrLen(projectName) > PROJECT_MAX_LENGTH
     THEN <<[code |-> "TOO_LONG",
             message |-> "Project name must be at most "
                             \o ToString(PROJECT_MAX_LENGTH) \o " characters"]>>
     ELSE <<>>)
    \o
    (IF ~ProjectNameRegexTest(ToText(projectName))
     THEN <<[code |-> "INVALID_FORMAT",
             message |-> "Project name can only contain letters, numbers, underscores, and hyphens"]>>
     ELSE <<>>)

ProjectValidate(projectName) ==
    IF projectName.k \in {"undefined", "null"} THEN Thrown("TypeError")
    ELSE IF Len(ProjectErrors(projectName)) > 0
    THEN Returned(Failure(ProjectErrors(projectName)))
    ELSE Returned(Success(projectName))

BRANCH_NAME_CLASS == Lower \cup Upper \cup Digits \cup {"/", "_", "-"}
BRANCH_MAX_LENGTH == 250
BRANCH_MIN_LENGTH == 1

\* /^[a-zA-Z0-9/_-]+$/.test(name)
BranchNameRegexTest(v) == StrLen(v) >= 1 /\ AllIn(v, BRANCH_NAME_CLASS)

\* The branch checks without the two tests on slashes.
BranchErrors_NoSlashTests(branchName) ==
    (IF StrLen(branchName) < BRANCH_MIN_LENGTH
     THEN <<[code |-> "TOO_SHORT",
             message |-> "Branch name must be at least "
                             \o ToString(BRANCH_MIN_LENGTH) \o " character(s)"]>>
     ELSE <<>>)
    \o
    (IF StrLen(branchName) > BRANCH_MAX_LENGTH
     THEN <<[code |-> "TOO_LONG",
             message |-> "Branch name must be at most "
                             \o ToString(BRANCH_MAX_LENGTH) \o " characters"]>>
     ELSE <<>>)
    \o
    (IF ~BranchNameRegexTest(branchName)
     THEN <<[code |-> "INVALID_FORMAT",
             message |-> "Branch name contains invalid characters"]>>
     ELSE <<>>)

BranchErrors(branchName) ==
    (IF StrLen(branchName) < BRANCH_MIN_LENGTH
     THEN <<[code |-> "TOO_SHORT",
             message |-> "Branch name must be at least "
                             \o ToString(BRANCH_MIN_LENGTH) \o " character(s)"]>>
     ELSE <<>>)
    \o
    (IF StrLen(branchName) > BRANCH_MAX_LENGTH
     THEN <<[code |-> "TOO_LONG",
             message |-> "Branch name must be at most "
                             \o ToString(BRANCH_MAX_LENGTH) \o " characters"]>>
     ELSE <<>>)
    \o
    (IF ~BranchNameRegexTest(branchName)
     THEN <<[code |-> "INVALID_FORMAT",
             message |-> "Branch name contains invalid characters"]>>
     ELSE <<>>)
    \o
    (IF StartsWith(branchName, "/") \/ EndsWith(branchName, "/")
     THEN <<[code |-> "INVALID_FORMAT",
             message |-> "Branch name cannot start or end with a slash"]>>
     ELSE <<>>)
    \o
    (IF IncludesTwice(branchName, "/")
     THEN <<[code |-> "INVALID_FORMAT",
             message |-> "Branch name cannot contain consecutive slashes"]>>
     ELSE <<>>)

\* BranchValidator.validate; branchName.length of null or undefined throws,
\* and any other non-string has no startsWith method to call.
BranchValidate(branchName) ==
    IF branchName.k # "str" THEN Thrown("TypeError")
    ELSE IF Len(BranchErrors(branchName)) > 0
    THEN Returned(Failure(BranchErrors(branchName)))
    ELSE Returned(Success(branchName))

\* Whether JSON.stringify(value) returns: it throws a TypeError on a BigInt
\* and on an object that refers back to itself.
RECURSIVE Serializable(_)
Serializable(v) ==
    CASE v.k = "bigint" -> FALSE
      [] v.k = "arr" ->
            /\ (Cardinality(DOMAIN v.exc \cap 0..(v.len - 1)) < v.len
                   => Serializable(v.dflt))
            /\ \A i \in DOMAIN v.exc : Serializable(v.exc[i])
      [] v.k = "obj" -> ~v.cyc /\ \A x \in DOMAIN v.m : Serializable(v.m[x])
      [] OTHER -> TRUE

RECURSIVE SumOver(_, _)
SumOver(S, f) ==
    IF S = {} THEN 0
    ELSE LET x == CHOOSE y \in S : TRUE
         IN f[x] + SumOver(S \ {x}, f)

\* The number of UTF-8 bytes of JSON.stringify(value), for a serializable
\* value whose texts hold no character that JSON escapes: numbers in decimal,
\* NaN and infinity as null, undefined as null inside an array and left out
\* of an object together with its key.
RECURSIVE JsonBytes(_)
JsonBytes(v) ==
    CASE v.k \in {"undefined", "null", "nan", "inf"} -> 4
      [] v.k = "num" -> Len(ToString(v.v))
      [] v.k = "str" -> 2 + StrBytes(v)
      [] v.k = "arr" ->
            LET written == DOMAIN v.exc \cap 0..(v.len - 1)
                rest == v.len - Cardinality(written)
            IN 2 + (IF v.len > 0 THEN v.len - 1 ELSE 0)
                 + (IF rest > 0 THEN rest * JsonBytes(v.dflt) ELSE 0)
                 + SumOver(written, [i \in written |-> JsonBytes(v.exc[i])])
      [] v.k = "obj" ->
            LET keys == {x \in DOMAIN v.m : v.m[x].k # "undefined"}
            IN 2 + (IF keys # {} THEN Cardinality(keys) - 1 ELSE 0)
                 + SumOver(keys, [x \in keys |-> Len(x) + 3 + JsonBytes(v.m[x])])

MAX_CONTENT_SIZE == 1024 * 1024
MAX_STRING_LENGTH == 100000

\* new TextEncoder().encode(JSON.stringify(content)).length; JSON.stringify
\* of undefined is undefined, which encodes as the empty text.
SizeInBytes(content) == IF content.k = "undefined" THEN 0 ELSE JsonBytes(content)

\* The content checks rejecting content of exactly the maximum size.
ContentSizeErrors_AtLimit(content) ==
    (IF SizeInBytes(content) >= MAX_CONTENT_SIZE
     THEN <<[code |-> "CONTENT_TOO_LARGE",
             message |-> "Content size (" \o ToString(SizeInBytes(content))
                             \o " bytes) exceeds maximum allowed size ("
                             \o ToString(MAX_CONTENT_SIZE) \o " bytes)"]>>
     ELSE <<>>)
    \o
    (IF content.k = "str" /\ StrLen(content) > MAX_STRING_LENGTH
     THEN <<[code |-> "STRING_TOO_LONG",
             message |-> "String length (" \o ToString(StrLen(content))
                             \o ") exceeds maximum allowed length ("
                             \o ToString(MAX_STRING_LENGTH) \o ")"]>>
     ELSE <<>>)

ContentSizeErrors(content) ==
    (IF SizeInBytes(content) > MAX_CONTENT_SIZE
     THEN <<[code |-> "CONTENT_TOO_LARGE",
             message |-> "Content size (" \o ToString(SizeInBytes(content))
                             \o " bytes) exceeds maximum allowed size ("
                             \o ToString(MAX_CONTENT_SIZE) \o " bytes)"]>>
     ELSE <<>>)
    \o
    (IF content.k = "str" /\ StrLen(content) > MAX_STRING_LENGTH
     THEN <<[code |-> "STRING_TOO_LONG",
             message |-> "String length (" \o ToString(StrLen(content))
                             \o ") exceeds maximum allowed length ("
                             \o ToString(MAX_STRING_LENGTH) \o ")"]>>
     ELSE <<>>)

\* ContentSizeValidator.validate: JSON.stringify is called outside any try.
ContentSizeValidate(content) ==
    IF ~Serializable(content) THEN Thrown("TypeError")
    ELSE IF Len(ContentSizeErrors(content)) > 0
    THEN Returned(Failure(ContentSizeErrors(content)))
    ELSE Returned(Success(content))

SUPPORTED_DIMENSIONS == {384, 512, 768, 1024, 1536}

\* typeof value !== 'number' || isNaN(value) || !isFinite(value)
NotAValidNumber(value) == value.k # "num"

\* The loop of EmbeddingValidator.validate leaving at the first index it reports.
InvalidIndices_FirstOnly(embedding) ==
    LET all == Ascending({i \in (IF NotAValidNumber(embedding.dflt)
                                 THEN 0..(embedding.len - 1)
                                 ELSE DOMAIN embedding.exc \cap 0..(embedding.len - 1)) :
                             NotAValidNumber(At(embedding, i))})
    IN IF all = <<>> THEN <<>> ELSE <<all[1]>>

\* The indices the loop of EmbeddingValidator.validate reports, ascending.
InvalidIndices(embedding) ==
    Ascending({i \in (IF NotAValidNumber(embedding.dflt)
                      THEN 0..(embedding.len - 1)
                      ELSE DOMAIN embedding.exc \cap 0..(embedding.len - 1)) :
                  NotAValidNumber(At(embedding, i))})

\* The embedding checks stopping at the first one that fails.
EmbeddingErrors_FirstOnly(embedding) ==
    IF embedding.len = 0
    THEN <<[code |-> "EMPTY_EMBEDDING", message |-> "Embedding cannot be empty"]>>
    ELSE IF embedding.len \notin SUPPORTED_DIMENSIONS
    THEN <<[code |-> "INVALID_DIMENSION",
            message |-> "Embedding dimension (" \o ToString(embedding.len)
                            \o ") is not supported. Supported dimensions: 384, 512, 768, 1024, 1536"]>>
    ELSE [n \in 1..Len(InvalidIndices(embedding)) |->
            [code |-> "INVALID_VALUE",
             message |-> "Embedding value at index "
                             \o ToString(InvalidIndices(embedding)[n])
                             \o " is not a valid number",
             path |-> <<ToString(InvalidIndices(embedding)[n])>>]]

EmbeddingErrors(embedding) ==
    (IF embedding.len = 0
     THEN <<[code |-> "EMPTY_EMBEDDING", message |-> "Embedding cannot be empty"]>>
     ELSE <<>>)
    \o
    (IF embedding.len \notin SUPPORTED_DIMENSIONS
     THEN <<[code |-> "INVALID_DIMENSION",
             message |-> "Embedding dimension (" \o ToString(embedding.len)
                             \o ") is not supported. Supported dimensions: 384, 512, 768, 1024, 1536"]>>
     ELSE <<>>)
    \o
    [n \in 1..Len(InvalidIndices(embedding)) |->
        [code |-> "INVALID_VALUE",
         message |-> "Embedding value at index "
                         \o ToString(InvalidIndices(embedding)[n])
                         \o " is not a valid number",
         path |-> <<ToString(InvalidIndices(embedding)[n])>>]]

\* EmbeddingValidator.validate without the test errors.length > 0.
EmbeddingValidate_NoLengthTest(embedding) ==
    IF embedding.k # "arr"
    THEN Returned(Failure(<<[code |-> "INVALID_TYPE",
                             message |-> "Embedding must be an array of numbers"]>>))
    ELSE Returned(Failure(EmbeddingErrors(embedding)))

\* EmbeddingValidator.validate
EmbeddingValidate(embedding) ==
    IF embedding.k # "arr"
    THEN Returned(Failure(<<[code |-> "INVALID_TYPE",
                             message |-> "Embedding must be an array of numbers"]>>))
    ELSE IF Len(EmbeddingErrors(embedding)) > 0
    THEN Returned(Failure(EmbeddingErrors(embedding)))
    ELSE Returned(Success(embedding))

\* errors.push(...(result.errors || [])) when the result is no success.
ErrorsOf(outcome) ==
    IF outcome.result.success THEN <<>>
    ELSE IF "errors" \in DOMAIN outcome.result THEN outcome.result.errors
    ELSE <<>>

\* The second part of UCPValidator.validateMemoryEntry, on the typed entry:
\* the validators called, in order, and what the call does.
CollectAll(validatedEntry) ==
    LET projectResult == ProjectValidate(Get(validatedEntry.m, "project"))
        branchResult == BranchValidate(Get(validatedEntry.m, "branch"))
        contentResult == ContentSizeValidate(Get(validatedEntry.m, "content"))
        embedding == Get(validatedEntry.m, "embedding")
        embeddingResult == EmbeddingValidate(embedding)
        errors == ErrorsOf(projectResult) \o ErrorsOf(branchResult)
                      \o ErrorsOf(contentResult)
                      \o (IF Truthy(embedding) THEN ErrorsOf(embeddingResult) ELSE <<>>)
    IN IF projectResult.kind = "thrown"
       THEN [calls |-> <<"ProjectValidator">>, outcome |-> projectResult]
       ELSE IF branchResult.kind = "thrown"
       THEN [calls |-> <<"ProjectValidator", "BranchValidator">>,
             outcome |-> branchResult]
       ELSE IF contentResult.kind = "thrown"
       THEN [calls |-> <<"ProjectValidator", "BranchValidator", "ContentSizeValidator">>,
             outcome |-> contentResult]
       ELSE [calls |-> <<"ProjectValidator", "BranchValidator", "ContentSizeValidator">>
                           \o (IF Truthy(embedding) THEN <<"EmbeddingValidator">>
                               ELSE <<>>),
             outcome |-> IF Len(errors) > 0 THEN Returned(Failure(errors))
                         ELSE Returned(Success(validatedEntry))]

\* validateMemoryEntry going on to the field validators after a content error.
RunValidateMemoryEntry_NoFailFast(entry) ==
    LET structureResult == ValidateTyped(entry)
        base == Validate(entry)
        rest == CollectAll(base.result.data)
    IN IF structureResult.kind = "thrown"
       THEN [calls |-> <<"MemoryEntryValidator">>, outcome |-> structureResult]
       ELSE IF ~base.result.success
       THEN [calls |-> <<"MemoryEntryValidator">>, outcome |-> structureResult]
       ELSE IF rest.outcome.kind = "thrown"
       THEN [calls |-> <<"MemoryEntryValidator">> \o rest.calls,
             outcome |-> rest.outcome]
       ELSE IF ~structureResult.result.success
       THEN [calls |-> <<"MemoryEntryValidator">> \o rest.calls,
             outcome |-> Returned(Failure(structureResult.result.errors
                                              \o ErrorsOf(rest.outcome)))]
       ELSE [calls |-> <<"MemoryEntryValidator">> \o rest.calls,
             outcome |-> rest.outcome]

\* UCPValidator.validateMemoryEntry: the validators called and the outcome.
RunValidateMemoryEntry(entry) ==
    LET structureResult == ValidateTyped(entry)
    IN IF structureResult.kind = "thrown"
       THEN [calls |-> <<"MemoryEntryValidator">>, outcome |-> structureResult]
       ELSE IF ~structureResult.result.success \/ ~Truthy(structureResult.result.data)
       THEN [calls |-> <<"MemoryEntryValidator">>, outcome |-> structureResult]
       ELSE LET rest == CollectAll(structureResult.result.data)
            IN [calls |-> <<"MemoryEntryValidator">> \o rest.calls,
                outcome |-> rest.outcome]

ValidateMemoryEntry(entry) == RunValidateMemoryEntry(entry).outcome

(***************************************************************************)
(* Candidates: the values handed to the validators                         *)
(***************************************************************************)
\* How many fields of a candidate differ from a well-formed entry.
MaxDeviations == 2

ValidContent(type) ==
    CASE type = "TaskState" ->
            Obj([description |-> Str("d"), goals |-> List(<<Str("g")>>),
                 progress |-> Num(50), context |-> Obj(NoKeys),
                 activeFiles |-> List(<<>>), workingDirectory |-> Str("/")])
      [] type = "CommitDelta" ->
            Obj([commitHash |-> Str("abc123"), message |-> Str("m"),
                 author |-> Obj([name |-> Str("n"), email |-> Str("e")]),
                 files |-> List(<<Obj([path |-> Str("a.ts"), action |-> Str("added")])>>)])
      [] type = "ReasoningEntry" ->
            Obj([threadId |-> Str("t"), model |-> Str("m"), query |-> Str("q"),
                 response |-> Str("r")])
      [] type = "SummaryCheckpoint" ->
            Obj([period |-> Obj([start |-> Str("2024-01-01T00:00:00Z"),
                                 end |-> Str("2024-01-31T00:00:00.000Z")]),
                 summary |-> Str("s"), achievements |-> List(<<>>),
                 decisions |-> List(<<Str("x")>>)])
      [] type = "BranchMeta" ->
            Obj([purpose |-> Str("p"), parentBranch |-> Str("main"),
                 createdAt |-> Str("2024-01-01T00:00:00Z")])

\* A well-formed entry of a type (taskId null, no optional field).
ValidEntry(type) ==
    Obj([id |-> Str("123e4567-e89b-42d3-a456-426614174000"),
         type |-> Str(type),
         project |-> Str("my-project_1"),
         taskId |-> NULL,
         branch |-> Str("feature/x"),
         timestamp |-> Str("2024-01-15T10:30:00Z"),
         status |-> Str("draft"),
         content |-> ValidContent(type)])

\* One deviation: a key of the entry (in "entry") or of its content (in
\* "content") set to a value, or removed when the value is undefined.
Set(in, key, v) == [in |-> in, key |-> key, v |-> v]

Deviations ==
    <<Set("entry", "id", Str("not-a-uuid")),
      Set("entry", "type", Str("Bogus")),
      Set("entry", "type", Str("TaskState")),
      Set("entry", "project", Str("bad project!")),
      Set("entry", "project", Str("")),
      Set("entry", "project", Run("", 101, "a")),
      Set("entry", "taskId", UNDEF),
      Set("entry", "taskId", Str("PROJ-123")),
      Set("entry", "branch", Str("/x//y/")),
      Set("entry", "branch", Str("")),
      Set("entry", "branch", Run("f/", 249, "a")),
      Set("entry", "timestamp", Str("yesterday")),
      Set("entry", "status", Str("deleted")),
      Set("entry", "content", Str("text")),
      Set("entry", "content", ValidContent("CommitDelta")),
      Set("entry", "metadata", Obj([source |-> Str("ide"), n |-> BIGINT])),
      Set("entry", "embedding", Fill(384, Num(0))),
      Set("entry", "embedding", Arr(400, Num(0), [i \in {3} |-> NAN])),
      Set("entry", "embedding", Arr(400, Num(0), [i \in {3} |-> INF])),
      Set("entry", "embedding", Arr(384, Num(0), [i \in {0, 7} |-> INF])),
      Set("entry", "embedding", List(<<>>)),
      Set("entry", "embedding", Str("vector")),
      Set("entry", "extra", Str("x")),
      Set("content", "progress", Num(150)),
      Set("content", "progress", Num(-1)),
      Set("content", "progress", Num(0)),
      Set("content", "progress", Num(100)),
      Set("content", "description", UNDEF),
      Set("content", "description", Run("", 100001, "a")),
      Set("content", "description", Run("", 1048577, "a")),
      Set("content", "context", Obj([n |-> BIGINT])),
      Set("content", "unknownKey", Str("x"))>>

Deviate(entry, d) ==
    LET set(m) == IF d.v = UNDEF THEN Without(m, d.key) ELSE With(m, d.key, d.v)
    IN IF d.in = "entry" THEN [entry EXCEPT !.m = set(entry.m)]
       ELSE IF "content" \in DOMAIN entry.m /\ entry.m.content.k = "obj"
       THEN [entry EXCEPT !.m.content.m = set(entry.m.content.m)]
       ELSE entry

\* The entries that differ from entry by at most k of the deviations from
\* the i-th on.
RECURSIVE Deviating(_, _, _)
Deviating(entry, i, k) ==
    IF k = 0 \/ i > Len(Deviations) THEN {entry}
    ELSE Deviating(entry, i + 1, k) \cup Deviating(Deviate(entry, Deviations[i]), i + 1, k - 1)

\* Values that are no map at all.
NonMaps == {NULL, UNDEF, Num(5), Str("entry")}

Candidates ==
    NonMaps \cup UNION {Deviating(ValidEntry(MemoryEntryType[n]), 1, MaxDeviations) :
                           n \in 1..Len(MemoryEntryType)}

\* The arguments of the field validators called on their own.
NameInputs ==
    {Str(""), Str("ok"), Str("my-project_1"), Str("bad project!"), Str("feature/x"),
     Str("/x//y/"), Str("a//b"), Str("x/"), Run("", 100, "a"), Run("", 101, "a"),
     Run("", 101, "!"), Run("", 250, "a"), Run("f/", 249, "a"), Run("", 251, "/"),
     NULL, UNDEF, Num(123)}
ContentInputs ==
    {ValidContent("TaskState"), Obj(NoKeys), Str("text"), Run("", 100000, "a"),
     Run("", 100001, "a"), Run("", 1048574, "a"), Run("", 1048575, "a"),
     Run("", 524287, "U+00E9"), Run("", 524288, "U+00E9"),
     Obj([d |-> Run("", 1048568, "a")]), Obj([d |-> Run("", 1048569, "a")]),
     Obj([d |-> Run("", 524284, "U+00E9")]), Obj([d |-> Run("", 524285, "U+00E9")]),
     Obj([n |-> BIGINT]), Cyclic(NoKeys), BIGINT, NULL, UNDEF, Num(7)}
\* Entries that break several rules at once, or carry keys no schema declares.
AllEnvelopeRulesBroken ==
    Obj([id |-> Str("not-a-uuid"), type |-> Str("Bogus"), project |-> Str(""),
         taskId |-> NULL, branch |-> Num(5), timestamp |-> Str("yesterday"),
         status |-> Str("deleted"), content |-> Str("text")])
ThreeContentRulesBroken ==
    [ValidEntry("TaskState") EXCEPT !.m.content =
        Obj([description |-> Num(5), goals |-> List(<<Str("g")>>),
             progress |-> Num(150), context |-> Obj(NoKeys),
             workingDirectory |-> Str("/"), unknownKey |-> Str("x")])]
EnumMismatch ==
    [ValidEntry("CommitDelta") EXCEPT !.m.content =
        Obj([message |-> Str("m"),
             author |-> Obj([name |-> Str("n"), email |-> Str("e")]),
             files |-> List(<<Obj([path |-> Str("a.ts"), action |-> Str("moved")])>>)])]
UndeclaredKeys ==
    Obj(With(With([ValidEntry("TaskState") EXCEPT !.m.content =
                      Obj(With(With(ValidContent("TaskState").m, "context",
                                    Obj([k |-> Str("v"), deep |-> Obj([a |-> Num(1)])])),
                               "unknownKey", Str("x")))].m,
                  "metadata", Obj([source |-> Str("ide"), other |-> List(<<Num(1)>>)])),
             "extra", Str("x")))
TypedInputs ==
    {AllEnvelopeRulesBroken, ThreeContentRulesBroken, EnumMismatch, UndeclaredKeys}

EmbeddingInputs ==
    {Fill(384, Num(0)), Fill(512, Num(1)), Fill(768, Num(0)), Fill(1024, Num(0)),
     Fill(1536, Num(0)), Fill(400, Num(0)), List(<<>>),
     Arr(400, Num(0), [i \in {3} |-> NAN]), Arr(384, Num(0), [i \in {0, 7} |-> INF]),
     Arr(3, Num(0), [i \in {1} |-> Str("x")]), Fill(2, NAN), NULL, Str("vector")}

(***************************************************************************)
(* The server: services and the requests of POST /api/v1/memory            *)
(***************************************************************************)
\* How many requests the server handles at once, and how many milliseconds
\* the clock advances.
MaxRequests == 2
MaxClock == 2

Requests == 1..MaxRequests

\* new Date() at clock reading t.
Date(t) == [k |-> "date", t |-> t]

\* VectorService.generateEmbedding: new Array(384).fill(0)
GenerateEmbedding(text) == Fill(384, Num(0))

\* DatabaseService.storeMemory at clock reading t:
\* { id: `mem_${Date.now()}`, ...memory, createdAt: now, updatedAt: now }
StoreMemory(memory, t) ==
    Obj([x \in DOMAIN memory.m \cup {"id", "createdAt", "updatedAt"} |->
            IF x \in {"createdAt", "updatedAt"} THEN Date(t)
            ELSE IF x \in DOMAIN memory.m THEN memory.m[x]
            ELSE Str("mem_" \o ToString(t))])

\* { ...metadata, content }: the keys of metadata when it is a map, and content.
SpreadWith(metadata, key, v) ==
    Obj(With(IF metadata.k = "obj" THEN metadata.m ELSE NoKeys, key, v))

\* An object literal: a key whose value is undefined is left out.
Literal(m) == Obj([x \in {y \in DOMAIN m : m[y] # UNDEF} |-> m[x]])

\* The bodies posted to /api/v1/memory: a request with no body at all, whose
\* request.body is undefined, and JSON bodies.
PostBodies ==
    {UNDEF,
     Obj(NoKeys),
     Obj([content |-> Str("")]),
     Obj([content |-> Str("remember this")]),
     Obj([content |-> Str("remember this"), metadata |-> Obj([source |-> Str("ide")])]),
     Obj([content |-> Run("", 100001, "a")]),
     ValidEntry("TaskState")}

\* A request the server has not received yet.
NoRequest ==
    [pc |-> "none", body |-> UNDEF, embedding |-> UNDEF, stored |-> UNDEF,
     memory |-> UNDEF, vector |-> UNDEF, reply |-> UNDEF]

(***************************************************************************)
(* The life of the server process                                          *)
(***************************************************************************)
\* new UCPServer(config): the app is built, the database service is not
\* connected, the vector service not initialized, start() not called.  pc is
\* the step start() is at, stop the step stop() is at, done the steps of
\* start() that have succeeded, exit the code the process has exited with,
\* if it has.
NewServer(mcpEnabled) ==
    [mcpEnabled |-> mcpEnabled, pc |-> "new", done |-> <<>>, failed |-> "none",
     connected |-> FALSE, initialized |-> FALSE, listening |-> FALSE,
     closed |-> FALSE, stop |-> "idle", exit |-> <<>>]

\* start() running setupMCP whatever mcp.enabled says.
After_AlwaysMCP(step, mcpEnabled) ==
    CASE step = "connect" -> "initialize"
      [] step = "initialize" -> "cors"
      [] step = "cors" -> "swagger"
      [] step = "swagger" -> "setupAPI"
      [] step = "setupAPI" -> "setupMCP"
      [] step = "setupMCP" -> "health"
      [] step = "health" -> "listen"
      [] step = "listen" -> "running"

\* The step of start() that follows a step that succeeded.
After(step, mcpEnabled) ==
    CASE step = "connect" -> "initialize"
      [] step = "initialize" -> "cors"
      [] step = "cors" -> "swagger"
      [] step = "swagger" -> "setupAPI"
      [] step = "setupAPI" -> IF mcpEnabled THEN "setupMCP" ELSE "health"
      [] step = "setupMCP" -> "health"
      [] step = "health" -> "listen"
      [] step = "listen" -> "running"

(***************************************************************************)
(* Validator calls made by several tasks                                   *)
(***************************************************************************)
\* How many tasks call the validators at once.
MaxTasks == 2

Tasks == 1..MaxTasks

\* The two regular expressions are objects shared by all calls; they carry no
\* flag.  A regular expression object holds lastIndex.
PROJECT_NAME_REGEX_Global == [class |-> PROJECT_NAME_CLASS, flags |-> {"g"}]
PROJECT_NAME_REGEX == [class |-> PROJECT_NAME_CLASS, flags |-> {}]
BRANCH_NAME_REGEX_Global == [class |-> BRANCH_NAME_CLASS, flags |-> {"g"}]
BRANCH_NAME_REGEX == [class |-> BRANCH_NAME_CLASS, flags |-> {}]

\* regex.test(string) of /^[class]+$/flags with the object's lastIndex at
\* index: whether it matches, and lastIndex afterwards.  Without the flag g
\* the search starts at 0 and lastIndex is left alone; with it the search
\* starts at lastIndex, where ^ matches only if that is 0, and lastIndex
\* becomes the end of the match, or 0 when there is none.
RegExpTest(regex, index, v) ==
    LET global == "g" \in regex.flags
        start == IF global THEN index ELSE 0
        matched == start = 0 /\ StrLen(v) >= 1 /\ AllIn(v, regex.class)
    IN [matched |-> matched,
        lastIndex |-> IF ~global THEN index ELSE IF matched THEN StrLen(v) ELSE 0]

\* ProjectValidator.validate with PROJECT_NAME_REGEX.lastIndex at index.
ProjectValidateAt(projectName, index) ==
    LET test == RegExpTest(PROJECT_NAME_REGEX, index, ToText(projectName))
        errors == SelectSeq(ProjectErrors(projectName),
                            LAMBDA e : e.code \in {"TOO_SHORT", "TOO_LONG"})
                  \o (IF ~test.matched
                      THEN <<[code |-> "INVALID_FORMAT",
                              message |-> "Project name can only contain letters, numbers, underscores, and hyphens"]>>
                      ELSE <<>>)
    IN [lastIndex |-> test.lastIndex,
        outcome |-> IF Len(errors) > 0 THEN Returned(Failure(errors))
                    ELSE Returned(Success(projectName))]

\* BranchValidator.validate with BRANCH_NAME_REGEX.lastIndex at index.
BranchValidateAt(branchName, index) ==
    LET test == RegExpTest(BRANCH_NAME_REGEX, index, branchName)
        errors == SelectSeq(BranchErrors(branchName),
                            LAMBDA e : e.code \in {"TOO_SHORT", "TOO_LONG"})
                  \o (IF ~test.matched
                      THEN <<[code |-> "INVALID_FORMAT",
                              message |-> "Branch name contains invalid characters"]>>
                      ELSE <<>>)
                  \o SelectSeq(BranchErrors(branchName),
                               LAMBDA e : e.message \in
                                   {"Branch name cannot start or end with a slash",
                                    "Branch name cannot contain consecutive slashes"})
    IN [lastIndex |-> test.lastIndex,
        outcome |-> IF Len(errors) > 0 THEN Returned(Failure(errors))
                    ELSE Returned(Success(branchName))]

\* The candidates the tasks validate.
TaskCandidates ==
    {ValidEntry("TaskState"),
     Deviate(Deviate(Deviate(ValidEntry("CommitDelta"),
                             Set("entry", "project", Str("bad project!"))),
                     Set("entry", "branch", Str("/x//y/"))),
             Set("entry", "embedding", Arr(400, Num(0), [i \in {3} |-> INF]))),
     Deviate(ValidEntry("TaskState"), Set("content", "description", Run("", 1048577, "a"))),
     Deviate(ValidEntry("TaskState"), Set("content", "progress", Num(150))),
     Deviate(ValidEntry("TaskState"), Set("content", "context", Obj([n |-> BIGINT])))}

\* No call has ended yet.
NoOutcome == [kind |-> "none"]

\* A task that has made no call.
NoTask ==
    [pc |-> "idle", round |-> 0, candidate |-> UNDEF, validatedEntry |-> UNDEF,
     errors |-> <<>>, outcome |-> NoOutcome, first |-> NoOutcome]

(***************************************************************************)
(* The calls                                                               *)
(***************************************************************************)
VARIABLES op, input, outcome, calls, prev, requests, now, tasks, lastIndex, server
vars == <<op, input, outcome, calls, prev, requests, now, tasks, lastIndex, server>>

Init ==
    /\ op = "idle"
    /\ input \in Candidates \cup NameInputs \cup ContentInputs \cup EmbeddingInputs
                   \cup TypedInputs
    /\ outcome = NoOutcome
    /\ calls = <<>>
    /\ prev = NoOutcome
    /\ requests = [r \in Requests |-> NoRequest]
    /\ now = 0
    /\ tasks = [t \in Tasks |-> NoTask]
    /\ lastIndex = [x \in {"project", "branch"} |-> 0]
    /\ server = NewServer(FALSE)

\* UCPValidator.validateMemoryEntry(input)
CallValidateMemoryEntry ==
    /\ op = "idle"
    /\ op' = "validateMemoryEntry"
    /\ outcome' = RunValidateMemoryEntry(input).outcome
    /\ calls' = RunValidateMemoryEntry(input).calls
    /\ UNCHANGED <<input, prev, requests, now, tasks, lastIndex, server>>

\* validateMemoryEntry again, on the data a successful call returned; prev
\* keeps the outcome of the first call.
Revalidate ==
    /\ op = "validateMemoryEntry"
    /\ outcome.kind = "returned"
    /\ outcome.result.success
    /\ op' = "revalidate"
    /\ prev' = outcome
    /\ outcome' = RunValidateMemoryEntry(outcome.result.data).outcome
    /\ calls' = RunValidateMemoryEntry(outcome.result.data).calls
    /\ UNCHANGED <<input, requests, now, tasks, lastIndex, server>>

\* MemoryEntryValidator.validate(input)
CallValidate ==
    /\ op = "idle"
    /\ op' = "validate"
    /\ outcome' = Validate(input)
    /\ calls' = <<"MemoryEntryValidator">>
    /\ UNCHANGED <<input, prev, requests, now, tasks, lastIndex, server>>

\* MemoryEntryValidator.validateTyped(input)
CallValidateTyped ==
    /\ op = "idle"
    /\ op' = "validateTyped"
    /\ outcome' = ValidateTyped(input)
    /\ calls' = <<"MemoryEntryValidator">>
    /\ UNCHANGED <<input, prev, requests, now, tasks, lastIndex, server>>

\* MemoryEntryValidator.validateByType(input)
CallValidateByType ==
    /\ op = "idle"
    /\ op' = "validateByType"
    /\ outcome' = ValidateByType(input)
    /\ calls' = <<"MemoryEntryValidator">>
    /\ UNCHANGED <<input, prev, requests, now, tasks, lastIndex, server>>

\* ProjectValidator.validate(input)
CallProjectValidator ==
    /\ op = "idle"
    /\ input \in NameInputs
    /\ op' = "ProjectValidator"
    /\ outcome' = ProjectValidate(input)
    /\ calls' = <<"ProjectValidator">>
    /\ UNCHANGED <<input, prev, requests, now, tasks, lastIndex, server>>

\* BranchValidator.validate(input)
CallBranchValidator ==
    /\ op = "idle"
    /\ input \in NameInputs
    /\ op' = "BranchValidator"
    /\ outcome' = BranchValidate(input)
    /\ calls' = <<"BranchValidator">>
    /\ UNCHANGED <<input, prev, requests, now, tasks, lastIndex, server>>

\* ContentSizeValidator.validate(input)
CallContentSizeValidator ==
    /\ op = "idle"
    /\ input \in ContentInputs
    /\ op' = "ContentSizeValidator"
    /\ outcome' = ContentSizeValidate(input)
    /\ calls' = <<"ContentSizeValidator">>
    /\ UNCHANGED <<input, prev, requests, now, tasks, lastIndex, server>>

\* EmbeddingValidator.validate(input)
CallEmbeddingValidator ==
    /\ op = "idle"
    /\ input \in EmbeddingInputs
    /\ op' = "EmbeddingValidator"
    /\ outcome' = EmbeddingValidate(input)
    /\ calls' = <<"EmbeddingValidator">>
    /\ UNCHANGED <<input, prev, requests, now, tasks, lastIndex, server>>

Next ==
    \/ CallValidateMemoryEntry
    \/ Revalidate
    \/ CallValidate
    \/ CallValidateTyped
    \/ CallValidateByType
    \/ CallProjectValidator
    \/ CallBranchValidator
    \/ CallContentSizeValidator
    \/ CallEmbeddingValidator

Spec == Init /\ [][Next]_vars

(***************************************************************************)
(* The server handling POST /api/v1/memory                                 *)
(***************************************************************************)
\* No validator call is in progress in the server: it makes none.
ServerInit ==
    /\ op = "idle"
    /\ input = UNDEF
    /\ outcome = NoOutcome
    /\ calls = <<>>
    /\ prev = NoOutcome
    /\ requests = [r \in Requests |-> NoRequest]
    /\ now = 0
    /\ tasks = [t \in Tasks |-> NoTask]
    /\ lastIndex = [x \in {"project", "branch"} |-> 0]
    /\ server = NewServer(FALSE)

\* The handler up to its first await: destructuring a body that is undefined
\* throws before the try, and the framework answers the rejected handler with
\* 500; a body without content is answered 400; otherwise
\* vector.generateEmbedding(content) is called.
PostMemory(r) ==
    /\ requests[r].pc = "none"
    /\ \E body \in PostBodies :
          LET content == IF body.k = "obj" THEN Get(body.m, "content") ELSE UNDEF
          IN requests' =
                [requests EXCEPT ![r] =
                    IF body.k \in {"undefined", "null"}
                    THEN [@ EXCEPT !.pc = "replied", !.body = body,
                                   !.reply = [status |-> 500,
                                              error |-> "Internal Server Error"]]
                    ELSE IF ~Truthy(content)
                    THEN [@ EXCEPT !.pc = "replied", !.body = body,
                                   !.reply = [status |-> 400,
                                              error |-> "Content is required"]]
                    ELSE [@ EXCEPT !.pc = "generateEmbedding", !.body = body,
                                   !.embedding = GenerateEmbedding(content)]]
    /\ UNCHANGED <<op, input, outcome, calls, prev, now, tasks, lastIndex, server>>

\* After generateEmbedding: database.storeMemory({content, metadata, embedding}).
CallStoreMemory(r) ==
    /\ requests[r].pc = "generateEmbedding"
    /\ LET stored == Literal([content |-> Get(requests[r].body.m, "content"),
                              metadata |-> Get(requests[r].body.m, "metadata"),
                              embedding |-> requests[r].embedding])
       IN requests' = [requests EXCEPT ![r] =
                          [@ EXCEPT !.pc = "storeMemory", !.stored = stored,
                                    !.memory = StoreMemory(stored, now)]]
    /\ UNCHANGED <<op, input, outcome, calls, prev, now, tasks, lastIndex, server>>

\* After storeMemory: vector.storeVector(memory.id, embedding, {...metadata, content}).
CallStoreVector(r) ==
    /\ requests[r].pc = "storeMemory"
    /\ requests' =
          [requests EXCEPT ![r] =
              [@ EXCEPT !.pc = "storeVector",
                        !.vector = [id |-> requests[r].memory.m.id,
                                    embedding |-> requests[r].embedding,
                                    metadata |-> SpreadWith(Get(requests[r].body.m, "metadata"),
                                                            "content",
                                                            Get(requests[r].body.m, "content"))]]]
    /\ UNCHANGED <<op, input, outcome, calls, prev, now, tasks, lastIndex, server>>

\* After storeVector: the handler returns { success: true, data: {...} }.
ReplySuccess(r) ==
    /\ requests[r].pc = "storeVector"
    /\ requests' =
          [requests EXCEPT ![r] =
              [@ EXCEPT !.pc = "replied",
                        !.reply = [status |-> 200, success |-> TRUE,
                                   data |-> Literal([id |-> requests[r].memory.m.id,
                                                     content |-> requests[r].memory.m.content,
                                                     metadata |-> Get(requests[r].memory.m, "metadata"),
                                                     createdAt |-> requests[r].memory.m.createdAt])]]]
    /\ UNCHANGED <<op, input, outcome, calls, prev, now, tasks, lastIndex, server>>

\* A millisecond passes on the clock Date.now() reads.
Tick ==
    /\ now < MaxClock
    /\ now' = now + 1
    /\ UNCHANGED <<op, input, outcome, calls, prev, requests, tasks, lastIndex, server>>

ServerNext ==
    \/ \E r \in Requests : PostMemory(r)
    \/ \E r \in Requests : CallStoreMemory(r)
    \/ \E r \in Requests : CallStoreVector(r)
    \/ \E r \in Requests : ReplySuccess(r)
    \/ Tick

ServerSpec == ServerInit /\ [][ServerNext]_vars

(***************************************************************************)
(* Tasks calling validateMemoryEntry side by side, one validator at a time *)
(***************************************************************************)
TasksInit ==
    /\ op = "idle"
    /\ input = UNDEF
    /\ outcome = NoOutcome
    /\ calls = <<>>
    /\ prev = NoOutcome
    /\ requests = [r \in Requests |-> NoRequest]
    /\ now = 0
    /\ tasks = [t \in Tasks |-> NoTask]
    /\ lastIndex = [x \in {"project", "branch"} |-> 0]
    /\ server = NewServer(FALSE)

\* The structure check of a call on the entry: the call returns its failure,
\* or goes on with a fresh errors array.
Structure(task, entry) ==
    LET structureResult == ValidateTyped(entry)
    IN IF structureResult.kind = "thrown"
          \/ ~structureResult.result.success
          \/ ~Truthy(structureResult.result.data)
       THEN [task EXCEPT !.pc = "done", !.round = @ + 1, !.candidate = entry,
                         !.outcome = structureResult]
       ELSE [task EXCEPT !.pc = "project", !.round = @ + 1, !.candidate = entry,
                         !.validatedEntry = structureResult.result.data,
                         !.errors = <<>>, !.outcome = NoOutcome]

\* A task calls validateMemoryEntry(candidate).
Start(t) ==
    /\ tasks[t].pc = "idle"
    /\ \E entry \in TaskCandidates :
          tasks' = [tasks EXCEPT ![t] = Structure(@, entry)]
    /\ UNCHANGED <<op, input, outcome, calls, prev, requests, now, lastIndex, server>>

\* ProjectValidator.validate(validatedEntry.project) and the push of its errors.
StepProject(t) ==
    /\ tasks[t].pc = "project"
    /\ LET result == ProjectValidateAt(tasks[t].validatedEntry.m.project, lastIndex.project)
       IN /\ tasks' = [tasks EXCEPT ![t].pc = "branch",
                                    ![t].errors = @ \o ErrorsOf(result.outcome)]
          /\ lastIndex' = [lastIndex EXCEPT !.project = result.lastIndex]
    /\ UNCHANGED <<op, input, outcome, calls, prev, requests, now, server>>

\* BranchValidator.validate(validatedEntry.branch) and the push of its errors.
StepBranch(t) ==
    /\ tasks[t].pc = "branch"
    /\ LET result == BranchValidateAt(tasks[t].validatedEntry.m.branch, lastIndex.branch)
       IN /\ tasks' = [tasks EXCEPT ![t].pc = "content",
                                    ![t].errors = @ \o ErrorsOf(result.outcome)]
          /\ lastIndex' = [lastIndex EXCEPT !.branch = result.lastIndex]
    /\ UNCHANGED <<op, input, outcome, calls, prev, requests, now, server>>

\* ContentSizeValidator.validate(validatedEntry.content): its exception ends
\* the call, its errors are pushed.
StepContent(t) ==
    /\ tasks[t].pc = "content"
    /\ LET contentResult == ContentSizeValidate(tasks[t].validatedEntry.m.content)
       IN tasks' = IF contentResult.kind = "thrown"
                   THEN [tasks EXCEPT ![t].pc = "done", ![t].outcome = contentResult]
                   ELSE [tasks EXCEPT ![t].pc = "embedding",
                                      ![t].errors = @ \o ErrorsOf(contentResult)]
    /\ UNCHANGED <<op, input, outcome, calls, prev, requests, now, lastIndex, server>>

\* EmbeddingValidator.validate when the embedding is present, and the return.
StepEmbedding(t) ==
    /\ tasks[t].pc = "embedding"
    /\ LET embedding == Get(tasks[t].validatedEntry.m, "embedding")
           errors == tasks[t].errors
                        \o (IF Truthy(embedding) THEN ErrorsOf(EmbeddingValidate(embedding))
                            ELSE <<>>)
       IN tasks' = [tasks EXCEPT ![t].pc = "done",
                                 ![t].errors = errors,
                                 ![t].outcome =
                                     IF Len(errors) > 0 THEN Returned(Failure(errors))
                                     ELSE Returned(Success(tasks[t].validatedEntry))]
    /\ UNCHANGED <<op, input, outcome, calls, prev, requests, now, lastIndex, server>>

\* The task calls validateMemoryEntry a second time, on the same candidate.
Again(t) ==
    /\ tasks[t].pc = "done"
    /\ tasks[t].round = 1
    /\ tasks' = [tasks EXCEPT ![t] = Structure([@ EXCEPT !.first = tasks[t].outcome],
                                               tasks[t].candidate)]
    /\ UNCHANGED <<op, input, outcome, calls, prev, requests, now, lastIndex, server>>

TasksNext ==
    \/ \E t \in Tasks : Start(t)
    \/ \E t \in Tasks : StepProject(t)
    \/ \E t \in Tasks : StepBranch(t)
    \/ \E t \in Tasks : StepContent(t)
    \/ \E t \in Tasks : StepEmbedding(t)
    \/ \E t \in Tasks : Again(t)

TasksSpec == TasksInit /\ [][TasksNext]_vars

(***************************************************************************)
(* UCPServer.start and UCPServer.stop, step by step.  The signal handlers  *)
(* are registered before start() is called, so stop() runs at any await of *)
(* start().                                                                *)
(***************************************************************************)
LifecycleInit ==
    /\ op = "idle"
    /\ input = UNDEF
    /\ outcome = NoOutcome
    /\ calls = <<>>
    /\ prev = NoOutcome
    /\ requests = [r \in Requests |-> NoRequest]
    /\ now = 0
    /\ tasks = [t \in Tasks |-> NoTask]
    /\ lastIndex = [x \in {"project", "branch"} |-> 0]
    /\ \E mcpEnabled \in BOOLEAN : server = NewServer(mcpEnabled)

\* The process is alive.
Alive == server.exit = <<>>

\* A step of start() has succeeded.
Succeeded(step) ==
    [server EXCEPT !.pc = After(step, server.mcpEnabled),
                   !.done = Append(@, step)]

\* server.start() up to its first await: databaseService.connect().
ServerStart ==
    /\ Alive
    /\ server.pc = "new"
    /\ server' = [Succeeded("connect") EXCEPT !.connected = TRUE]
    /\ UNCHANGED <<op, input, outcome, calls, prev, requests, now, tasks, lastIndex>>

\* vectorService.initialize().
Initialize ==
    /\ Alive
    /\ server.pc = "initialize"
    /\ server' = [Succeeded("initialize") EXCEPT !.initialized = TRUE]
    /\ UNCHANGED <<op, input, outcome, calls, prev, requests, now, tasks, lastIndex>>

\* app.register of the plugin cors or swagger has resolved.
Register(plugin) ==
    /\ Alive
    /\ server.pc = plugin
    /\ server' = Succeeded(plugin)
    /\ UNCHANGED <<op, input, outcome, calls, prev, requests, now, tasks, lastIndex>>

\* setupAPI(app, services) has resolved.
SetupAPI ==
    /\ Alive
    /\ server.pc = "setupAPI"
    /\ server' = Succeeded("setupAPI")
    /\ UNCHANGED <<op, input, outcome, calls, prev, requests, now, tasks, lastIndex>>

\* setupMCP(options), reached when mcp.enabled.
SetupMCP ==
    /\ Alive
    /\ server.pc = "setupMCP"
    /\ server' = Succeeded("setupMCP")
    /\ UNCHANGED <<op, input, outcome, calls, prev, requests, now, tasks, lastIndex>>

\* app.get('/health', ...).
RegisterHealth ==
    /\ Alive
    /\ server.pc = "health"
    /\ server' = Succeeded("health")
    /\ UNCHANGED <<op, input, outcome, calls, prev, requests, now, tasks, lastIndex>>

\* app.listen has resolved; an app that was closed does not listen again.
Listen ==
    /\ Alive
    /\ server.pc = "listen"
    /\ ~server.closed
    /\ server' = [Succeeded("listen") EXCEPT !.listening = TRUE]
    /\ UNCHANGED <<op, input, outcome, calls, prev, requests, now, tasks, lastIndex>>

\* A step that calls into the framework has thrown or rejected: the catch
\* of start() logs the error and calls process.exit(1).
StepFails ==
    /\ Alive
    /\ server.pc \in {"cors", "swagger", "setupAPI", "health", "listen"}
    /\ server' = [server EXCEPT !.failed = server.pc, !.exit = <<1>>]
    /\ UNCHANGED <<op, input, outcome, calls, prev, requests, now, tasks, lastIndex>>

\* SIGTERM or SIGINT: the handler calls server.stop().
Signal ==
    /\ Alive
    /\ server.stop = "idle"
    /\ server' = [server EXCEPT !.stop = "close"]
    /\ UNCHANGED <<op, input, outcome, calls, prev, requests, now, tasks, lastIndex>>

\* app.close() has resolved, or it has rejected and the catch of stop() has
\* logged the error: stop() returns.
StopClose ==
    /\ Alive
    /\ server.stop = "close"
    /\ \/ server' = [server EXCEPT !.closed = TRUE, !.listening = FALSE,
                                   !.stop = "disconnect"]
       \/ server' = [server EXCEPT !.stop = "returned"]
    /\ UNCHANGED <<op, input, outcome, calls, prev, requests, now, tasks, lastIndex>>

\* databaseService.disconnect().
StopDatabase ==
    /\ Alive
    /\ server.stop = "disconnect"
    /\ server' = [server EXCEPT !.connected = FALSE, !.stop = "vectorDisconnect"]
    /\ UNCHANGED <<op, input, outcome, calls, prev, requests, now, tasks, lastIndex>>

\* vectorService.disconnect(); stop() returns.
StopVector ==
    /\ Alive
    /\ server.stop = "vectorDisconnect"
    /\ server' = [server EXCEPT !.initialized = FALSE, !.stop = "returned"]
    /\ UNCHANGED <<op, input, outcome, calls, prev, requests, now, tasks, lastIndex>>

\* The signal handler after stop() has returned: process.exit(0).
ExitAfterStop ==
    /\ Alive
    /\ server.stop = "returned"
    /\ server' = [server EXCEPT !.exit = <<0>>]
    /\ UNCHANGED <<op, input, outcome, calls, prev, requests, now, tasks, lastIndex>>

LifecycleNext ==
    \/ ServerStart
    \/ Initialize
    \/ \E plugin \in {"cors", "swagger"} : Register(plugin)
    \/ SetupAPI
    \/ SetupMCP
    \/ RegisterHealth
    \/ Listen
    \/ StepFails
    \/ Signal
    \/ StopClose
    \/ StopDatabase
    \/ StopVector
    \/ ExitAfterStop

LifecycleSpec == LifecycleInit /\ [][LifecycleNext]_vars

(***************************************************************************)
(* Properties                                                              *)
(***************************************************************************)
\* A call of validateMemoryEntry has been made, on Subject.
IsEntryCall == op \in {"validateMemoryEntry", "revalidate"}
Subject == IF op = "revalidate" THEN prev.result.data ELSE input

ReturnedFailure == outcome.kind = "returned" /\ ~outcome.result.success
ReturnedSuccess == outcome.kind = "returned" /\ outcome.result.success

\* Some error of the returned failure satisfies P.
SomeError(P(_)) ==
    \E n \in 1..Len(outcome.result.errors) : P(outcome.result.errors[n])
EveryError(P(_)) ==
    \A n \in 1..Len(outcome.result.errors) : P(outcome.result.errors[n])

HasCode(e, code) == e.code = code
HasPath(e, path) == "path" \in DOMAIN e /\ e.path = path

\* The entry still validates once the key is set to the value (or removed).
ValidWith(entry, key, v) ==
    LET other == [entry EXCEPT !.m = IF v = UNDEF THEN Without(entry.m, key)
                                     ELSE With(entry.m, key, v)]
    IN /\ ValidateMemoryEntry(other).kind = "returned"
       /\ ValidateMemoryEntry(other).result.success

\* The TaskState entry of the example: progress 150 and project "bad project!".
Progress150BadProject ==
    Deviate(Deviate(ValidEntry("TaskState"), Set("entry", "project", Str("bad project!"))),
            Set("content", "progress", Num(150)))

\* C1: validateMemoryEntry is fail-fast in phase 1.  When the envelope check
\* of the candidate reports errors, the call returns exactly that result;
\* otherwise, when the type-specific check reports errors, the call returns
\* exactly that result; in both cases the only validator called is
\* MemoryEntryValidator, so no project-name, branch-name, content-size or
\* embedding validator runs.  The example entry yields exactly one error, at
\* path content.progress.
C1_FailFast ==
    /\ IsEntryCall =>
          LET base == Validate(Subject)
              typed == ValidateByType(base.result.data)
          IN IF ~base.result.success
             THEN outcome = base /\ calls = <<"MemoryEntryValidator">>
             ELSE (typed.kind = "returned" /\ ~typed.result.success)
                     => outcome = typed /\ calls = <<"MemoryEntryValidator">>
    /\ (op = "validateMemoryEntry" /\ input = Progress150BadProject) =>
          /\ ReturnedFailure
          /\ Len(outcome.result.errors) = 1
          /\ outcome.result.errors[1].path = <<"content", "progress">>

\* C1 witness: the example entry has been validated and the call returned
\* the one content error without calling a field validator.
C1_Witness ==
    /\ op = "validateMemoryEntry"
    /\ input = Progress150BadProject
    /\ ReturnedFailure
    /\ outcome.result.errors[1].code = "too_big"
    /\ calls = <<"MemoryEntryValidator">>

\* The candidate passes phase 1 (structure and type-specific content).
PassesPhaseOne ==
    /\ IsEntryCall
    /\ ValidateTyped(Subject).kind = "returned"
    /\ ValidateTyped(Subject).result.success

\* The call returned the merge of the field validators' errors: all of
\* project, branch and content size were called, embedding exactly when
\* present, the errors are their error lists in that order, and the result
\* is a failure iff that list is non-empty, else a success with the typed entry.
MergedInOrder ==
    LET typed == ValidateTyped(Subject).result.data
        present == "embedding" \in DOMAIN typed.m
        project == ProjectValidate(typed.m.project)
        branch == BranchValidate(typed.m.branch)
        size == ContentSizeValidate(typed.m.content)
        merged == ErrorsOf(project) \o ErrorsOf(branch) \o ErrorsOf(size)
                     \o (IF present THEN ErrorsOf(EmbeddingValidate(typed.m.embedding))
                         ELSE <<>>)
    IN /\ outcome.kind = "returned"
       /\ calls = <<"MemoryEntryValidator", "ProjectValidator", "BranchValidator",
                    "ContentSizeValidator">>
                     \o (IF present THEN <<"EmbeddingValidator">> ELSE <<>>)
       /\ outcome.result = IF Len(merged) > 0 THEN Failure(merged) ELSE Success(typed)

\* C2: phase 2 collects all errors without short-circuit: for every candidate
\* that passes phase 1 the call returns the merge of the field validators'
\* errors in the order project, branch, content size, embedding.
C2_CollectAll == PassesPhaseOne => MergedInOrder

\* The same statement for the candidates whose content JSON.stringify can
\* serialize; this one holds.
C2_CollectAllOfSerializable ==
    (PassesPhaseOne /\ Serializable(ValidateTyped(Subject).result.data.m.content))
        => MergedInOrder

\* The candidate is a map whose type is a text outside the five discriminants.
UnknownType(entry) ==
    /\ entry.k = "obj"
    /\ "type" \in DOMAIN entry.m
    /\ entry.m.type.k = "str"
    /\ \A n \in 1..Len(MemoryEntryType) : entry.m.type.s # MemoryEntryType[n]

\* C3 as claimed: for every entry whose type is not one of the five known
\* discriminants the result holds exactly one error, about the type, and no
\* other error, whatever the other envelope fields and the content hold.
C3_SingleUnknownVariantError ==
    (op = "validateMemoryEntry" /\ UnknownType(input)) =>
        /\ ReturnedFailure
        /\ Len(outcome.result.errors) = 1
        /\ outcome.result.errors[1].path = <<"type">>

\* C3 amended: for every map entry whose type is a text outside the five
\* discriminants, validateMemoryEntry fails in the envelope check and calls
\* no other validator; the result is the envelope check's error list, which
\* holds exactly one error at path type, an invalid_enum_value error that
\* carries the offending value, next to one error for each other violated
\* envelope rule and no error below content; it is that one error alone when
\* the rest of the envelope is valid.  validateByType called on such an entry
\* returns exactly one INVALID_TYPE error at path type naming the value.
C3_Amended ==
    /\ (IsEntryCall /\ UnknownType(Subject)) =>
          /\ ReturnedFailure
          /\ calls = <<"MemoryEntryValidator">>
          /\ outcome = Validate(Subject)
          /\ Cardinality({n \in 1..Len(outcome.result.errors) :
                             outcome.result.errors[n].path = <<"type">>}) = 1
          /\ EveryError(LAMBDA e :
                e.path = <<"type">> =>
                    /\ e.code = "invalid_enum_value"
                    /\ e.context.received = Subject.m.type.s)
          /\ EveryError(LAMBDA e : ~(Len(e.path) >= 2 /\ e.path[1] = "content"))
          /\ Validate([Subject EXCEPT !.m.type = Str("TaskState")]).result.success
                => Len(outcome.result.errors) = 1
    /\ (op = "validateByType" /\ UnknownType(input)) =>
          /\ ReturnedFailure
          /\ Len(outcome.result.errors) = 1
          /\ outcome.result.errors[1].code = "INVALID_TYPE"
          /\ outcome.result.errors[1].path = <<"type">>
          /\ outcome.result.errors[1].message
                = "Unknown memory entry type: " \o input.m.type.s

\* C3 witness: an entry of unknown type with another envelope violation has
\* been validated, and the result holds the type error and the other one.
C3_Witness ==
    /\ op = "validateMemoryEntry"
    /\ UnknownType(input)
    /\ ReturnedFailure
    /\ Len(outcome.result.errors) >= 2
    /\ SomeError(LAMBDA e : e.path = <<"type">>)

\* C4: no exception crosses the boundary of any validator: every call, of the
\* aggregator and of each validator, on every input value, returns a
\* ValidationResult and never throws.
C4_NeverThrows == op # "idle" => outcome.kind = "returned"

\* C5: every ValidationResult returned by the aggregator and by each
\* validator has one of two shapes: success = true with the key data and
\* without errors, or success = false with a non-empty errors list and
\* without data.
C5_ResultShape ==
    (op # "idle" /\ outcome.kind = "returned") =>
        \/ /\ outcome.result.success
           /\ DOMAIN outcome.result = {"success", "data"}
        \/ /\ ~outcome.result.success
           /\ DOMAIN outcome.result = {"success", "errors"}
           /\ Len(outcome.result.errors) > 0

\* C5 witness: validateMemoryEntry returned a failure that merges the errors
\* of two field validators, and an embedding validator call returned success.
C5_Witness ==
    \/ /\ op = "validateMemoryEntry"
       /\ ReturnedFailure
       /\ "EmbeddingValidator" \in {calls[n] : n \in 1..Len(calls)}
       /\ Len(outcome.result.errors) >= 3
    \/ /\ op = "EmbeddingValidator"
       /\ ReturnedSuccess

\* C6: every error of every failure result of validateMemoryEntry carries a
\* code, a message and a path, the errors of phase 1 and those of the
\* project-name, branch-name, content-size and embedding validators alike.
C6_ErrorsCarryPath ==
    (IsEntryCall /\ ReturnedFailure) =>
        EveryError(LAMBDA e : {"code", "message", "path"} \subseteq DOMAIN e)

\* C7: round trip: when validateMemoryEntry returned success with data d,
\* validateMemoryEntry(d) returns success too, with data equal to d.
C7_RoundTrip ==
    op = "revalidate" =>
        /\ ReturnedSuccess
        /\ outcome.result.data = prev.result.data

\* C7 witness: the data of a successful call has been validated again, for a
\* candidate that carried keys the schemas strip (the data differs from it)
\* and an embedding.
C7_Witness ==
    /\ op = "revalidate"
    /\ prev.result.data # input
    /\ "embedding" \in DOMAIN prev.result.data.m
    /\ outcome = prev

\* The content schema of each discriminant (types/index.ts).
ContentSchemaOf(type) ==
    CASE type = "TaskState" -> TaskStateContentSchema
      [] type = "CommitDelta" -> CommitDeltaContentSchema
      [] type = "ReasoningEntry" -> ReasoningEntryContentSchema
      [] type = "SummaryCheckpoint" -> SummaryCheckpointContentSchema
      [] type = "BranchMeta" -> BranchMetaContentSchema

FitsItsType(entry) ==
    Parse(ContentSchemaOf(entry.m.type.s), Get(entry.m, "content"), <<"content">>).issues
        = <<>>

\* C8: the type determines the legal shape of content: the content of every
\* success result satisfies the content schema of the result's type, and a
\* candidate whose content does not satisfy the content schema of its own
\* type (content valid only for another variant) is not accepted.
C8_TypeDeterminesContent ==
    /\ (IsEntryCall /\ ReturnedSuccess) => FitsItsType(outcome.result.data)
    /\ (op = "validateMemoryEntry" /\ input.k = "obj" /\ "type" \in DOMAIN input.m
           /\ ~UnknownType(input) /\ ~FitsItsType(input))
          => ~ReturnedSuccess

\* C8 witness: an entry of type TaskState carrying the content of a valid
\* CommitDelta, in an otherwise valid envelope, has been rejected.
C8_Witness ==
    /\ op = "validateMemoryEntry"
    /\ input = [ValidEntry("TaskState") EXCEPT !.m.content = ValidContent("CommitDelta")]
    /\ ReturnedFailure

\* C9: taskId is optional and nullable: a candidate that omits taskId and is
\* otherwise valid passes validation, and the absence of taskId never
\* produces an error.
C9_TaskIdOptional ==
    (op = "validateMemoryEntry" /\ input.k = "obj" /\ "taskId" \notin DOMAIN input.m) =>
        /\ ValidWith(input, "taskId", NULL) => ReturnedSuccess
        /\ ReturnedFailure => ~SomeError(LAMBDA e : HasPath(e, <<"taskId">>))

\* The indices of the embedding at which the element is the value v.
IndicesOf(embedding, v) == {i \in DOMAIN embedding.exc : embedding.exc[i] = v}

\* The candidate is valid but for its embedding, an array of unsupported length.
BadLengthOnly(entry) ==
    /\ entry.k = "obj"
    /\ "embedding" \in DOMAIN entry.m
    /\ entry.m.embedding.k = "arr"
    /\ entry.m.embedding.len \notin {384, 512, 768, 1024, 1536}
    /\ ValidWith(entry, "embedding", UNDEF)

\* Phase 2 ran and the result holds INVALID_DIMENSION and, for each index in
\* I, an INVALID_VALUE error whose path is that index.
BothEmbeddingErrors(I) ==
    /\ ReturnedFailure
    /\ calls[Len(calls)] = "EmbeddingValidator"
    /\ SomeError(LAMBDA e : HasCode(e, "INVALID_DIMENSION"))
    /\ \A i \in I :
          SomeError(LAMBDA e : HasCode(e, "INVALID_VALUE") /\ HasPath(e, <<ToString(i)>>))

\* C10 as claimed: for an otherwise valid entry whose embedding has an
\* unsupported length and holds NaN at index i, validateMemoryEntry reaches
\* phase 2 and returns both an INVALID_DIMENSION error and an INVALID_VALUE
\* error with path [i].
C10_NaNReachesPhaseTwo ==
    (op = "validateMemoryEntry" /\ BadLengthOnly(input)
        /\ IndicesOf(input.m.embedding, NAN) # {})
        => BothEmbeddingErrors(IndicesOf(input.m.embedding, NAN))

\* C10 amended: for an otherwise valid entry whose embedding has an
\* unsupported length and holds an infinite value at index i (and no NaN),
\* validateMemoryEntry reaches phase 2 and returns both an INVALID_DIMENSION
\* error and an INVALID_VALUE error with path [i]; when the element at index
\* i is NaN the entry is rejected in phase 1 by the envelope check, with an
\* invalid_type error at path [embedding, i], the embedding validator is not
\* called and neither INVALID_DIMENSION nor INVALID_VALUE is reported.
C10_Amended ==
    (op = "validateMemoryEntry" /\ BadLengthOnly(input)) =>
        LET embedding == input.m.embedding
        IN IF IndicesOf(embedding, NAN) = {}
           THEN IndicesOf(embedding, INF) # {}
                   => BothEmbeddingErrors(IndicesOf(embedding, INF))
           ELSE /\ ReturnedFailure
                /\ calls = <<"MemoryEntryValidator">>
                /\ \A i \in IndicesOf(embedding, NAN) :
                      SomeError(LAMBDA e : /\ HasCode(e, "invalid_type")
                                           /\ HasPath(e, <<"embedding", ToString(i)>>))
                /\ ~SomeError(LAMBDA e : e.code \in {"INVALID_DIMENSION", "INVALID_VALUE"})

\* C10 witness: an otherwise valid entry with an embedding of length 400 and
\* an infinite value at index 3 has been validated, and the result holds
\* both errors.
C10_Witness ==
    /\ op = "validateMemoryEntry"
    /\ BadLengthOnly(input)
    /\ input.m.embedding.len = 400
    /\ IndicesOf(input.m.embedding, INF) = {3}
    /\ BothEmbeddingErrors({3})

\* Some string inside the value, a field of it or of a map or array within
\* it, is longer than the string limit.
RECURSIVE HasLongString(_)
HasLongString(v) ==
    CASE v.k = "str" -> StrLen(v) > 100000
      [] v.k = "arr" ->
            \/ (Cardinality(DOMAIN v.exc \cap 0..(v.len - 1)) < v.len
                   /\ HasLongString(v.dflt))
            \/ \E i \in DOMAIN v.exc \cap 0..(v.len - 1) : HasLongString(v.exc[i])
      [] v.k = "obj" -> \E x \in DOMAIN v.m : HasLongString(v.m[x])
      [] OTHER -> FALSE

\* C11: no accepted entry has a string field inside content longer than
\* 100,000 characters: every candidate whose content holds such a string is
\* rejected by validateMemoryEntry, also when the serialized content is
\* within 1,048,576 bytes.
C11_NoLongStringAccepted ==
    (IsEntryCall /\ ReturnedSuccess) => ~HasLongString(outcome.result.data.m.content)

\* Every element of the array is a string.
StringArray(v) == v.k = "arr" /\ \A i \in 0..(v.len - 1) : At(v, i).k = "str"

\* The project and branch rules and the embedding rules, as the
\* specification words them.
WellFormedProject(v) ==
    /\ v.k = "str"
    /\ StrLen(v) >= 1 /\ StrLen(v) <= 100
    /\ AllIn(v, Lower \cup Upper \cup Digits \cup {"_", "-"})
WellFormedBranch(v) ==
    /\ v.k = "str"
    /\ StrLen(v) >= 1 /\ StrLen(v) <= 250
    /\ AllIn(v, Lower \cup Upper \cup Digits \cup {"/", "_", "-"})
    /\ ~StartsWith(v, "/") /\ ~EndsWith(v, "/")
    /\ ~IncludesTwice(v, "/")
WellFormedEmbedding(v) ==
    /\ v.k = "arr"
    /\ v.len > 0
    /\ v.len \in {384, 512, 768, 1024, 1536}
    /\ \A i \in 0..(v.len - 1) : At(v, i).k = "num"

\* C12: soundness of acceptance: in every success result of
\* validateMemoryEntry the project of the data matches ^[A-Za-z0-9_-]+$ with
\* length 1 to 100, its branch matches ^[A-Za-z0-9/_-]+$ with length 1 to
\* 250, neither starts nor ends with a slash and holds no two slashes in a
\* row, and its embedding, when present, is a non-empty array of finite
\* numbers whose length is one of 384, 512, 768, 1024, 1536.
C12_AcceptedIsSound ==
    (IsEntryCall /\ ReturnedSuccess) =>
        LET data == outcome.result.data.m
        IN /\ WellFormedProject(Get(data, "project"))
           /\ WellFormedBranch(Get(data, "branch"))
           /\ "embedding" \in DOMAIN data => WellFormedEmbedding(data.embedding)

\* C12 witness: an entry with a branch holding a slash and an embedding has
\* been accepted.
C12_Witness ==
    /\ op = "validateMemoryEntry"
    /\ ReturnedSuccess
    /\ "embedding" \in DOMAIN outcome.result.data.m
    /\ outcome.result.data.m.branch = Str("feature/x")

\* A TaskState entry as the specification describes a valid one: a valid
\* envelope, content with all required TaskState fields and progress within
\* 0 and 100, a well-formed project and branch, content that serializes to
\* no more than 1,048,576 bytes, and no embedding.
WellFormedTaskState(entry) ==
    /\ entry.k = "obj"
    /\ {"id", "type", "project", "taskId", "branch", "timestamp", "status", "content"}
          \subseteq DOMAIN entry.m
    /\ "embedding" \notin DOMAIN entry.m
    /\ entry.m.id.k = "str" /\ IsUUID(entry.m.id)
    /\ entry.m.type = Str("TaskState")
    /\ WellFormedProject(entry.m.project)
    /\ entry.m.taskId = NULL \/ entry.m.taskId.k = "str"
    /\ WellFormedBranch(entry.m.branch)
    /\ entry.m.timestamp.k = "str" /\ IsDatetime(entry.m.timestamp)
    /\ entry.m.status \in {Str("draft"), Str("verified"), Str("archived")}
    /\ "metadata" \in DOMAIN entry.m => entry.m.metadata.k = "obj"
    /\ "tags" \in DOMAIN entry.m => StringArray(entry.m.tags)
    /\ entry.m.content.k = "obj"
    /\ LET content == entry.m.content.m
       IN /\ {"description", "goals", "progress", "context", "activeFiles",
              "workingDirectory"} \subseteq DOMAIN content
          /\ content.description.k = "str"
          /\ StringArray(content.goals)
          /\ content.progress.k = "num"
          /\ content.progress.v >= 0 /\ content.progress.v <= 100
          /\ content.context.k = "obj"
          /\ StringArray(content.activeFiles)
          /\ content.workingDirectory.k = "str"
          /\ "dependencies" \in DOMAIN content => StringArray(content.dependencies)
          /\ "blockers" \in DOMAIN content => StringArray(content.blockers)
    /\ Serializable(entry.m.content)
    /\ JsonBytes(entry.m.content) <= 1048576

\* The progress of a TaskState candidate is a number outside 0 to 100.
ProgressOutOfRange(entry) ==
    /\ entry.k = "obj"
    /\ Get(entry.m, "type") = Str("TaskState")
    /\ Get(entry.m, "content").k = "obj"
    /\ Get(entry.m.content.m, "progress").k = "num"
    /\ entry.m.content.m.progress.v < 0 \/ entry.m.content.m.progress.v > 100

C14_StoredOnlyValidated ==
    \A r \in Requests :
        requests[r].stored # UNDEF =>
            /\ ValidateMemoryEntry(requests[r].stored).kind = "returned"
            /\ ValidateMemoryEntry(requests[r].stored).result.success

\* C15: the validators are safe under concurrency: whenever calls of
\* validateMemoryEntry by several tasks on different candidates interleave,
\* validator by validator, each call ends with exactly the result the call
\* gives when run alone, and the calls leave the state the validators share,
\* the two regular expression objects, as it was.
C15_ResultAsWhenAlone ==
    /\ \A t \in Tasks :
          tasks[t].pc = "done" => tasks[t].outcome = ValidateMemoryEntry(tasks[t].candidate)
    /\ lastIndex = [x \in {"project", "branch"} |-> 0]
    /\ server = NewServer(FALSE)

\* C15 witness: two tasks validate different candidates, one has finished
\* with the errors of its project and branch while the other is in between
\* two of its validators.
C15_Witness ==
    \E t, u \in Tasks :
        /\ tasks[t].pc = "done"
        /\ tasks[t].outcome.kind = "returned"
        /\ ~tasks[t].outcome.result.success
        /\ Len(tasks[t].errors) >= 3
        /\ tasks[u].pc \in {"branch", "content", "embedding"}
        /\ tasks[u].candidate # tasks[t].candidate

\* C16: validation is deterministic: the second call of validateMemoryEntry
\* on a candidate ends as the first did, with the same success flag and the
\* same errors, codes, messages, paths and order alike; a candidate whose
\* serialized content exceeds 1,048,576 bytes gets CONTENT_TOO_LARGE, and
\* nothing else, both times.
C16_Deterministic ==
    \A t \in Tasks :
        (tasks[t].pc = "done" /\ tasks[t].round = 2) =>
            /\ tasks[t].outcome = tasks[t].first
            /\ (tasks[t].candidate.m.content.k = "obj"
                   /\ Serializable(tasks[t].candidate.m.content)
                   /\ JsonBytes(tasks[t].candidate.m.content) > 1048576
                   /\ ValidateTyped(tasks[t].candidate).result.success)
                  => /\ ~tasks[t].outcome.result.success
                     /\ Cardinality({n \in 1..Len(tasks[t].outcome.result.errors) :
                                        tasks[t].outcome.result.errors[n].code
                                            = "CONTENT_TOO_LARGE"}) = 1

\* C16 witness: an entry with oversized content has been validated twice and
\* the second call returned the CONTENT_TOO_LARGE error of the first.
C16_Witness ==
    \E t \in Tasks :
        /\ tasks[t].pc = "done"
        /\ tasks[t].round = 2
        /\ tasks[t].first.kind = "returned"
        /\ ~tasks[t].first.result.success
        /\ tasks[t].first.result.errors[1].code = "CONTENT_TOO_LARGE"
        /\ tasks[t].outcome = tasks[t].first

\* The codes, and the messages, of the errors of the outcome of a call.
CodesOf(o) == {ErrorsOf(o)[n].code : n \in 1..Len(ErrorsOf(o))}
MessagesOf(o) == {ErrorsOf(o)[n].message : n \in 1..Len(ErrorsOf(o))}

\* C17: content-size boundary: ContentSizeValidator.validate reports
\* CONTENT_TOO_LARGE if and only if the UTF-8 byte length, not the character
\* count, of the serialized content is strictly greater than 1,048,576;
\* content of exactly 1,048,576 bytes is accepted, and for content that is
\* not a string no other error is ever produced.
C17_SizeBoundary ==
    (op = "ContentSizeValidator" /\ outcome.kind = "returned") =>
        /\ "CONTENT_TOO_LARGE" \in CodesOf(outcome) <=> SizeInBytes(input) > 1048576
        /\ input.k # "str" =>
              /\ CodesOf(outcome) \subseteq {"CONTENT_TOO_LARGE"}
              /\ Len(ErrorsOf(outcome)) <= 1
              /\ SizeInBytes(input) <= 1048576 => outcome = Returned(Success(input))
        /\ input = Obj([d |-> Run("", 1048568, "a")]) => ReturnedSuccess
        /\ input = Obj([d |-> Run("", 1048569, "a")]) => ReturnedFailure
        /\ input = Obj([d |-> Run("", 524284, "U+00E9")]) => ReturnedSuccess
        /\ input = Obj([d |-> Run("", 524285, "U+00E9")]) => ReturnedFailure

\* C17 witness: a map that serializes to exactly 1,048,576 bytes has been
\* accepted by the content-size validator.
C17_Witness ==
    /\ op = "ContentSizeValidator"
    /\ input.k = "obj"
    /\ Serializable(input)
    /\ JsonBytes(input) = 1048576
    /\ ReturnedSuccess

\* The rules a project name and a branch name violate, as the specification
\* words them; a rule is named by the message of its error.
ViolatedProjectRules(v) ==
    (IF StrLen(v) < 1 THEN {"TOO_SHORT"} ELSE {})
    \cup (IF StrLen(v) > 100 THEN {"TOO_LONG"} ELSE {})
    \cup (IF StrLen(v) >= 1 /\ AllIn(v, Lower \cup Upper \cup Digits \cup {"_", "-"})
          THEN {} ELSE {"INVALID_FORMAT"})
ViolatedBranchRules(v) ==
    (IF StrLen(v) < 1 THEN {"Branch name must be at least 1 character(s)"} ELSE {})
    \cup (IF StrLen(v) > 250 THEN {"Branch name must be at most 250 characters"} ELSE {})
    \cup (IF StrLen(v) >= 1 /\ AllIn(v, Lower \cup Upper \cup Digits \cup {"/", "_", "-"})
          THEN {} ELSE {"Branch name contains invalid characters"})
    \cup (IF StartsWith(v, "/") \/ EndsWith(v, "/")
          THEN {"Branch name cannot start or end with a slash"} ELSE {})
    \cup (IF IncludesTwice(v, "/")
          THEN {"Branch name cannot contain consecutive slashes"} ELSE {})

\* C18: ProjectValidator.validate and BranchValidator.validate report exactly
\* the violated rules of a name, each once and all in one result: for a
\* project TOO_SHORT iff the length is below 1, TOO_LONG iff it is above 100,
\* INVALID_FORMAT iff the name fails ^[A-Za-z0-9_-]+$; for a branch
\* TOO_SHORT, TOO_LONG (above 250), one error iff it fails
\* ^[A-Za-z0-9/_-]+$, one iff it starts or ends with a slash and one iff it
\* holds two slashes in a row; success iff no rule is violated.
C18_ExactlyTheViolatedRules ==
    /\ (op = "ProjectValidator" /\ input.k = "str") =>
          /\ outcome.kind = "returned"
          /\ CodesOf(outcome) = ViolatedProjectRules(input)
          /\ Len(ErrorsOf(outcome)) = Cardinality(ViolatedProjectRules(input))
          /\ outcome.result.success <=> ViolatedProjectRules(input) = {}
    /\ (op = "BranchValidator" /\ input.k = "str") =>
          /\ outcome.kind = "returned"
          /\ MessagesOf(outcome) = ViolatedBranchRules(input)
          /\ Len(ErrorsOf(outcome)) = Cardinality(ViolatedBranchRules(input))
          /\ CodesOf(outcome) \subseteq {"TOO_SHORT", "TOO_LONG", "INVALID_FORMAT"}
          /\ outcome.result.success <=> ViolatedBranchRules(input) = {}

\* C18 witness: the branch validator has reported, for the branch /x//y/,
\* the slash at the ends and the two slashes in a row together.
C18_Witness ==
    /\ op = "BranchValidator"
    /\ input = Str("/x//y/")
    /\ ReturnedFailure
    /\ MessagesOf(outcome) = {"Branch name cannot start or end with a slash",
                              "Branch name cannot contain consecutive slashes"}

\* The sets of violations ProjectValidator.validate reports on the names tried.
ReportedOnSomeName(S) ==
    \E name \in NameInputs : name.k = "str" /\ CodesOf(ProjectValidate(name)) = S

\* C19 as claimed: any subset of the three project-name violations too-short,
\* too-long and bad-format can co-occur: for every subset there is a name on
\* which ProjectValidator.validate reports exactly that subset.
C19_AnySubset ==
    op = "ProjectValidator" =>
        \A S \in SUBSET {"TOO_SHORT", "TOO_LONG", "INVALID_FORMAT"} : ReportedOnSomeName(S)

\* C19 amended: ProjectValidator.validate reports, on every name, one of five
\* sets of violations: none, too-long, bad-format, too-long with bad-format,
\* or too-short with bad-format; too-short never comes without bad-format
\* (the empty name fails the pattern) and never with too-long; each of the
\* five sets is reported on some name.
C19_Amended ==
    LET possible == {{}, {"TOO_LONG"}, {"INVALID_FORMAT"}, {"TOO_LONG", "INVALID_FORMAT"},
                     {"TOO_SHORT", "INVALID_FORMAT"}}
    IN /\ (op = "ProjectValidator" /\ input.k = "str") =>
             /\ outcome.kind = "returned"
             /\ CodesOf(outcome) \in possible
             /\ "TOO_SHORT" \in CodesOf(outcome) =>
                   /\ "INVALID_FORMAT" \in CodesOf(outcome)
                   /\ "TOO_LONG" \notin CodesOf(outcome)
       /\ op = "ProjectValidator" => \A S \in possible : ReportedOnSomeName(S)

\* C19 witness: the project validator has reported too-long and bad-format
\* together, and on the empty name too-short and bad-format together.
C19_Witness ==
    /\ op = "ProjectValidator"
    /\ input.k = "str"
    /\ CodesOf(outcome) \in {{"TOO_LONG", "INVALID_FORMAT"}, {"TOO_SHORT", "INVALID_FORMAT"}}
    /\ Len(ErrorsOf(outcome)) = 2

\* The indices of an array at which the element is no finite number.
BadElements(v) == {i \in 0..(v.len - 1) : At(v, i).k # "num"}

\* C20: EmbeddingValidator.validate on an array accumulates every violation:
\* the error list is EMPTY_EMBEDDING if the length is 0, then
\* INVALID_DIMENSION if the length is none of 384, 512, 768, 1024, 1536, then
\* one INVALID_VALUE error with path [index] for each element that is no
\* number, NaN or infinite, in ascending order of the index; the empty array
\* gets both EMPTY_EMBEDDING and INVALID_DIMENSION, and an array of
\* unsupported length with k such elements gets 1 + k errors.
C20_AccumulatesAll ==
    (op = "EmbeddingValidator" /\ input.k = "arr") =>
        LET bad == Ascending(BadElements(input))
            head == (IF input.len = 0 THEN <<"EMPTY_EMBEDDING">> ELSE <<>>)
                       \o (IF input.len \notin {384, 512, 768, 1024, 1536}
                           THEN <<"INVALID_DIMENSION">> ELSE <<>>)
            errors == ErrorsOf(outcome)
        IN /\ outcome.kind = "returned"
           /\ Len(errors) = Len(head) + Len(bad)
           /\ \A n \in 1..Len(head) : errors[n].code = head[n]
           /\ \A n \in 1..Len(bad) :
                 /\ errors[Len(head) + n].code = "INVALID_VALUE"
                 /\ errors[Len(head) + n].path = <<ToString(bad[n])>>
           /\ outcome.result.success <=> (Len(head) + Len(bad) = 0)

\* C20 witness: an array of unsupported length with two or more elements
\* that are no finite number has been given to the embedding validator, and
\* the result holds INVALID_DIMENSION and one INVALID_VALUE for each of them.
C20_Witness ==
    /\ op = "EmbeddingValidator"
    /\ input.k = "arr"
    /\ input.len \notin {0, 384, 512, 768, 1024, 1536}
    /\ Cardinality(BadElements(input)) >= 2
    /\ ReturnedFailure
    /\ Len(outcome.result.errors) = 1 + Cardinality(BadElements(input))

\* The envelope rules a map breaks, each named by its field: id is a UUID,
\* type one of the five discriminants, project and branch non-empty strings,
\* timestamp an instant, status one of three, content a map.
BrokenEnvelopeRules(entry) ==
    LET f(x) == Get(entry.m, x)
    IN (IF f("id").k = "str" /\ IsUUID(f("id")) THEN {} ELSE {"id"})
       \cup (IF f("type") \in {Str(MemoryEntryType[n]) : n \in 1..Len(MemoryEntryType)}
             THEN {} ELSE {"type"})
       \cup (IF f("project").k = "str" /\ StrLen(f("project")) >= 1 THEN {} ELSE {"project"})
       \cup (IF f("branch").k = "str" /\ StrLen(f("branch")) >= 1 THEN {} ELSE {"branch"})
       \cup (IF f("timestamp").k = "str" /\ IsDatetime(f("timestamp"))
             THEN {} ELSE {"timestamp"})
       \cup (IF f("status") \in {Str("draft"), Str("verified"), Str("archived")}
             THEN {} ELSE {"status"})
       \cup (IF f("content").k = "obj" THEN {} ELSE {"content"})

\* The fields at which the errors of the outcome sit.
ErrorPaths(o) == {ErrorsOf(o)[n].path : n \in 1..Len(ErrorsOf(o))}

\* C21: the envelope check collects all envelope violations in one result:
\* for every map the error list of MemoryEntryValidator.validate holds an
\* error at a field exactly when the field's envelope rule is broken (id,
\* type, project, branch, timestamp, status, content), so all broken rules
\* are reported together; no format rule applies to project and branch, any
\* non-empty string passes; a candidate that is no map gets one error, at
\* the root.  validateMemoryEntry returns these errors as they are.
C21_AllEnvelopeViolations ==
    /\ (op = "validate" /\ input.k = "obj") =>
          /\ outcome.kind = "returned"
          /\ \A x \in {"id", "type", "project", "branch", "timestamp", "status", "content"} :
                x \in BrokenEnvelopeRules(input) <=> <<x>> \in ErrorPaths(outcome)
          /\ outcome.result.success => BrokenEnvelopeRules(input) = {}
    /\ (op = "validate" /\ input.k # "obj") =>
          /\ ReturnedFailure
          /\ ErrorPaths(outcome) = {<<>>}
          /\ Len(outcome.result.errors) = 1
    /\ (op = "validateMemoryEntry" /\ input.k = "obj" /\ BrokenEnvelopeRules(input) # {}) =>
          /\ ReturnedFailure
          /\ {<<x>> : x \in BrokenEnvelopeRules(input)} \subseteq ErrorPaths(outcome)

\* C21 witness: the envelope check has reported seven broken rules of one
\* candidate in one result.
C21_Witness ==
    /\ op = "validate"
    /\ input = AllEnvelopeRulesBroken
    /\ ReturnedFailure
    /\ Len(outcome.result.errors) = 7

\* The fields of TaskState content whose rule the content breaks.
BrokenTaskStateRules(content) ==
    LET f(x) == Get(content.m, x)
        strings(x) == IF StringArray(f(x)) THEN {} ELSE {x}
        optional(x) == IF f(x) = UNDEF \/ StringArray(f(x)) THEN {} ELSE {x}
    IN (IF f("description").k = "str" THEN {} ELSE {"description"})
       \cup strings("goals")
       \cup (IF f("progress").k = "num" /\ f("progress").v >= 0 /\ f("progress").v <= 100
             THEN {} ELSE {"progress"})
       \cup (IF f("context").k = "obj" THEN {} ELSE {"context"})
       \cup strings("activeFiles")
       \cup (IF f("workingDirectory").k = "str" THEN {} ELSE {"workingDirectory"})
       \cup optional("dependencies")
       \cup optional("blockers")

\* The envelope of the candidate is valid, and the call is one that runs the
\* type-specific check on it.
TypedCheckRan ==
    /\ op \in {"validateByType", "validateTyped", "validateMemoryEntry"}
    /\ input.k = "obj"
    /\ BrokenEnvelopeRules(input) = {}
    /\ Validate(input).result.success

\* C22: for a valid envelope the type-specific check reports every broken
\* rule of the selected content schema in one result, each error with a path
\* that begins with content and goes on to the field: for TaskState content
\* the fields with an error are exactly the fields whose rule is broken; a
\* missing field, a wrong type, an enum mismatch and a number out of range
\* of one content are reported together.
C22_AllContentViolations ==
    /\ (TypedCheckRan /\ input.m.type = Str("TaskState")) =>
          IF BrokenTaskStateRules(input.m.content) # {}
          THEN /\ ReturnedFailure
               /\ calls = <<"MemoryEntryValidator">>
               /\ {SubSeq(q, 1, 2) : q \in ErrorPaths(outcome)}
                     = {<<"content", x>> : x \in BrokenTaskStateRules(input.m.content)}
          ELSE op # "validateMemoryEntry" => ReturnedSuccess
    /\ (TypedCheckRan /\ ReturnedFailure /\ calls = <<"MemoryEntryValidator">>) =>
          \A q \in ErrorPaths(outcome) : Len(q) >= 2 /\ q[1] = "content"
    /\ (TypedCheckRan /\ input = EnumMismatch) =>
          /\ ReturnedFailure
          /\ Len(outcome.result.errors) = 2
          /\ SomeError(LAMBDA e : HasCode(e, "invalid_type")
                                     /\ HasPath(e, <<"content", "commitHash">>))
          /\ SomeError(LAMBDA e : HasCode(e, "invalid_enum_value")
                                     /\ HasPath(e, <<"content", "files", "0", "action">>))

\* C22 witness: the type-specific check has reported a wrong type, a number
\* out of range and a missing field of one TaskState content together.
C22_Witness ==
    /\ op = "validateMemoryEntry"
    /\ input = ThreeContentRulesBroken
    /\ ReturnedFailure
    /\ ErrorPaths(outcome) = {<<"content", "description">>, <<"content", "progress">>,
                              <<"content", "activeFiles">>}

\* C23: metrics is a required field of SummaryCheckpoint content: an entry
\* of type SummaryCheckpoint whose content has no metrics is rejected in
\* phase 1 with an error at path content.metrics.
C23_MetricsRequired ==
    (op = "validateMemoryEntry" /\ input.k = "obj"
        /\ Get(input.m, "type") = Str("SummaryCheckpoint")
        /\ Get(input.m, "content").k = "obj"
        /\ "metrics" \notin DOMAIN input.m.content.m)
        => /\ ReturnedFailure
           /\ <<"content", "metrics">> \in ErrorPaths(outcome)

\* The candidate is a map whose type is one of the five discriminants.
KnownType(entry) ==
    /\ entry.k = "obj"
    /\ Get(entry.m, "type") \in {Str(MemoryEntryType[n]) : n \in 1..Len(MemoryEntryType)}

\* C24: the dispatch is exhaustive over the five discriminants: for each of
\* them validateByType validates the entry against the envelope extended
\* with the literal type and the content schema of exactly that type; no
\* entry that passed the envelope check reaches the branch of the unknown
\* type; and the content of every entry returned as success satisfies the
\* content schema of its type.
C24_ExhaustiveDispatch ==
    /\ (op = "validateByType" /\ KnownType(input)) =>
          outcome = ParseOrErrors(Extend(MemoryEntrySchema, <<"type", "content">>,
                                         [type |-> ZLiteral(input.m.type.s),
                                          content |-> ContentSchemaOf(input.m.type.s)]),
                                  input)
    /\ (op \in {"validateTyped", "validateMemoryEntry", "revalidate"}
           /\ outcome.kind = "returned") =>
          "INVALID_TYPE" \notin CodesOf(outcome)
    /\ (op \in {"validateByType", "validateTyped", "validateMemoryEntry", "revalidate"}
           /\ ReturnedSuccess) =>
          /\ KnownType(outcome.result.data)
          /\ FitsItsType(outcome.result.data)

\* C24 witness: validateByType has accepted an entry of the last
\* discriminant, BranchMeta, and validateMemoryEntry one of each other type.
C24_Witness ==
    \/ /\ op = "validateByType"
       /\ input = ValidEntry("BranchMeta")
       /\ ReturnedSuccess
    \/ /\ op = "validateMemoryEntry"
       /\ KnownType(input)
       /\ input.m.type # Str("BranchMeta")
       /\ ReturnedSuccess

\* The candidate is a map that would trigger one of the three tests of the
\* field validators: an empty project or branch, content that is a string,
\* an embedding that is no array.
TriggersDeadCheck(entry) ==
    /\ entry.k = "obj"
    /\ \/ Get(entry.m, "project") = Str("")
       \/ Get(entry.m, "branch") = Str("")
       \/ Get(entry.m, "content").k = "str"
       \/ Get(entry.m, "embedding").k \notin {"undefined", "arr"}

\* C25: no result of validateMemoryEntry holds an error with the code
\* TOO_SHORT, STRING_TOO_LONG or INVALID_TYPE (that of the embedding
\* validator): every candidate that would trigger one, with an empty project
\* or branch, content that is a string or an embedding that is no array, is
\* rejected in phase 1 before any field validator is called.
C25_UnreachableChecks ==
    /\ (IsEntryCall /\ outcome.kind = "returned") =>
          CodesOf(outcome) \cap {"TOO_SHORT", "STRING_TOO_LONG", "INVALID_TYPE"} = {}
    /\ (op = "validateMemoryEntry" /\ TriggersDeadCheck(input)) =>
          /\ ReturnedFailure
          /\ calls = <<"MemoryEntryValidator">>

\* C25 witness: an entry with an empty project, valid otherwise, has been
\* rejected in phase 1 with the schema's too_small error at project.
C25_Witness ==
    /\ op = "validateMemoryEntry"
    /\ input.k = "obj"
    /\ Get(input.m, "project") = Str("")
    /\ ReturnedFailure
    /\ calls = <<"MemoryEntryValidator">>
    /\ Len(outcome.result.errors) = 1
    /\ outcome.result.errors[1].code = "too_small"
    /\ outcome.result.errors[1].path = <<"project">>

\* The keys the envelope schema declares.
EnvelopeKeys ==
    {"id", "type", "project", "taskId", "branch", "timestamp", "status", "content",
     "metadata", "embedding", "tags"}

\* The entry without its top-level keys and the keys of its content that
\* the schemas do not declare.
WithoutUndeclared(entry) ==
    LET top == [x \in DOMAIN entry.m \cap EnvelopeKeys |-> entry.m[x]]
        declared == DOMAIN ContentSchemaOf(entry.m.type.s).shape
    IN Obj([top EXCEPT !.content.m = [x \in DOMAIN top.content.m \cap declared |->
                                         top.content.m[x]]])

\* C26: keys outside the schemas are dropped, not rejected: a candidate with
\* undeclared keys at the top or in content is accepted when it is valid
\* without them; the data of a success holds, of the candidate's keys, those
\* the envelope schema declares, its content those the content schema of
\* its type declares, and the open maps metadata and TaskState
\* content.context are returned as they came.
C26_UndeclaredKeysDropped ==
    /\ (IsEntryCall /\ ReturnedSuccess) =>
          LET data == outcome.result.data.m
              declared == DOMAIN ContentSchemaOf(data.type.s).shape
          IN /\ DOMAIN data = DOMAIN Subject.m \cap EnvelopeKeys
             /\ DOMAIN data.content.m = DOMAIN Subject.m.content.m \cap declared
             /\ "metadata" \in DOMAIN data => data.metadata = Subject.m.metadata
             /\ data.type = Str("TaskState") =>
                   data.content.m.context = Subject.m.content.m.context
    /\ (op = "validateMemoryEntry" /\ KnownType(input)
           /\ Get(input.m, "content").k = "obj"
           /\ ValidateMemoryEntry(WithoutUndeclared(input)).kind = "returned"
           /\ ValidateMemoryEntry(WithoutUndeclared(input)).result.success) =>
          /\ ReturnedSuccess
          /\ outcome.result.data = WithoutUndeclared(input)

\* C26 witness: an entry with an undeclared key at the top and one in its
\* content, and with keys in metadata and content.context, has been accepted;
\* the data lacks the two undeclared keys and holds the open maps unchanged.
C26_Witness ==
    /\ op = "validateMemoryEntry"
    /\ input = UndeclaredKeys
    /\ ReturnedSuccess
    /\ outcome.result.data # input
    /\ outcome.result.data = WithoutUndeclared(input)
    /\ outcome.result.data.m.metadata = input.m.metadata
    /\ DOMAIN outcome.result.data.m.content.m.context.m = {"k", "deep"}

\* The steps of start() in their order, under the configuration.
Steps(mcpEnabled) ==
    <<"connect", "initialize", "cors", "swagger", "setupAPI">>
        \o (IF mcpEnabled THEN <<"setupMCP">> ELSE <<>>)
        \o <<"health", "listen">>

IsPrefix(a, b) == Len(a) <= Len(b) /\ a = SubSeq(b, 1, Len(a))

\* C27: start() performs its steps in a fixed order: database connect, vector
\* initialize, (the two plugins,) API route setup, MCP setup if and only if
\* mcp.enabled, health-endpoint registration, listen; the server listens only
\* after all earlier steps have succeeded; and once a step has failed the
\* server does not listen and the process has exited with code 1.
C27_StartOrder ==
    /\ IsPrefix(server.done, Steps(server.mcpEnabled))
    /\ server.listening => server.done = Steps(server.mcpEnabled)
    /\ server.failed # "none" =>
          /\ ~server.listening
          /\ server.exit = <<1>>
          /\ server.done = SubSeq(Steps(server.mcpEnabled), 1, Len(server.done))
          /\ Len(server.done) < Len(Steps(server.mcpEnabled))
          /\ Steps(server.mcpEnabled)[Len(server.done) + 1] = server.failed

\* C27 witness: with mcp.enabled false the server listens after the seven
\* steps, setupMCP not among them.
C27_Witness ==
    /\ ~server.mcpEnabled
    /\ server.listening
    /\ server.done = <<"connect", "initialize", "cors", "swagger", "setupAPI",
                       "health", "listen">>
    /\ server.exit = <<>>

\* C28: after stop() has returned, the database service is disconnected and
\* the vector service is uninitialized, whatever closing the app did.
C28_StopDisconnects ==
    server.stop = "returned" => ~server.connected /\ ~server.initialized

\* The request carries no content: it has no body, or its body has no
\* content or a falsy one.
WithoutContent(r) ==
    \/ requests[r].body.k # "obj"
    \/ ~Truthy(Get(requests[r].body.m, "content"))

\* C29: in the handler of POST /api/v1/memory the steps run in the order
\* generateEmbedding, storeMemory, storeVector, storeVector is given the id
\* storeMemory returned, a success reply is sent only after all three, and a
\* request without content is answered 400 with none of the three invoked.
C29_HandlerProtocol ==
    \A r \in Requests :
        /\ requests[r].memory # UNDEF => requests[r].embedding # UNDEF
        /\ requests[r].vector # UNDEF =>
              /\ requests[r].memory # UNDEF
              /\ requests[r].vector.id = requests[r].memory.m.id
        /\ (requests[r].reply # UNDEF /\ requests[r].reply.status = 200) =>
              requests[r].vector # UNDEF
        /\ (requests[r].pc # "none" /\ WithoutContent(r)) =>
              /\ requests[r].pc = "replied"
              /\ requests[r].reply.status = 400
              /\ requests[r].embedding = UNDEF
              /\ requests[r].memory = UNDEF
              /\ requests[r].vector = UNDEF

\* C30: the ids DatabaseService.storeMemory assigns are unique: no two
\* memories returned to the handler carry the same id.
C30_UniqueIds ==
    \A r1 \in Requests : \A r2 \in Requests :
        (r1 # r2 /\ requests[r1].memory # UNDEF /\ requests[r2].memory # UNDEF) =>
            requests[r1].memory.m.id # requests[r2].memory.m.id

====
